---- MODULE Spec2Model ----
(***************************************************************************)
(* Terrain height-field engine (CReadMap): the synced corner grid, its     *)
(* derived buffers (center heights, mip pyramid, face/center normals,      *)
(* slope map), the visibility-gated queue of unsynced updates and its      *)
(* per-frame drain.                                                        *)
(*                                                                         *)
(* Numbers.  A float height h is held as the integer 64*h, so that the     *)
(* three successive "* 0.25f" of center heights and of the two non-empty   *)
(* mip levels of the modelled map are exact, as they are in binary         *)
(* floating point.  A component c of a unit normal is held as the integer  *)
(* nearest-below 1024*c.                                                   *)
(***************************************************************************)
EXTENDS Integers, Sequences, FiniteSets, TLC

(***************************************************************************)
(* Map dimensions (MapDimensions) and program constants.                   *)
(***************************************************************************)
mapx == 4
mapy == 4
mapxm1 == mapx - 1
mapym1 == mapy - 1
mapxp1 == mapx + 1
mapyp1 == mapy + 1
hmapx == mapx \div 2
hmapy == mapy \div 2

SQUARE_SIZE == 8
numHeightMipMaps == 7
MAX_UHM_RECTS_PER_FRAME == 128
\* PACING_PERIOD = GAME_SPEED, the simulation frames per second
PACING_PERIOD == 30
\* std::numeric_limits<float>::max() and ::lowest(), beyond every height
FloatMax == 2147483647
FloatLowest == -FloatMax

\* size of a LOS square in heightmap squares: los.mipDiv / SQUARE_SIZE
losSqrSize == 2
\* losHandler->los.size
losSizeX == mapx \div losSqrSize
losSizeY == mapy \div losSqrSize

(***************************************************************************)
(* Bounds of the model.                                                    *)
(***************************************************************************)
\* calls of UpdateHeightMapSynced after Initialize
MaxSyncedUpdates == 2
\* changes of the local player's view
MaxLosEvents == 2
\* rectangles queued behind the initial one when a drain starts
MaxPending == 258
\* simulation frames a run of the bounds tracker lasts
MaxFrames == 62
\* width of the checksum in bits
ChecksumBits == 8
\* calls of UpdateHeightMapSynced on a region nobody observes
MaxHiddenUpdates == 256

(***************************************************************************)
(* Arithmetic helpers.                                                     *)
(***************************************************************************)
Min(a, b) == IF a < b THEN a ELSE b
Max(a, b) == IF a > b THEN a ELSE b

\* a float h as a model number
Fixed(h) == h * 64
\* a unit-normal component c as a model number
NUnit(c) == c * 1024

\* x >> i for non-negative x
Shr(x, i) == x \div (2 ^ i)
\* x & (~1)
ClearBit0(x) == x - (x % 2)

\* C++ integer division and float-to-int conversion truncate towards zero
TruncDiv(a, b) == IF a >= 0 THEN a \div b ELSE -((-a) \div b)

\* the element of a one-element set: {e : v \in {d}} evaluates d once and
\* names its value v in e
Only(S) == CHOOSE only \in S : TRUE

\* a buffer as held in memory: the function f with every element computed
Stored(f) == f @@ <<>>

RECURSIVE ISqrtIn(_, _, _)
ISqrtIn(n, lo, hi) ==
    IF lo >= hi THEN lo
    ELSE LET mid == (lo + hi + 1) \div 2
         IN  IF mid * mid <= n THEN ISqrtIn(n, mid, hi) ELSE ISqrtIn(n, lo, mid - 1)

\* floor of the square root
ISqrt(n) == ISqrtIn(n, 0, 4096)

(***************************************************************************)
(* SRectangle.                                                             *)
(***************************************************************************)
Rect(x1, z1, x2, z2) == [x1 |-> x1, z1 |-> z1, x2 |-> x2, z2 |-> z2]

GetWidth(r) == r.x2 - r.x1
GetHeight(r) == r.z2 - r.z1
GetArea(r) == GetWidth(r) * GetHeight(r)

Clamp(v, lo, hi) == Min(Max(v, lo), hi)

\* SRectangle::ClampIn
ClampIn(r, o) ==
    Rect(Clamp(r.x1, o.x1, o.x2), Clamp(r.z1, o.z1, o.z2),
         Clamp(r.x2, o.x1, o.x2), Clamp(r.z2, o.z1, o.z2))

\* SRectangle::operator*(float) with the factor SQUARE_SIZE * los.invDiv,
\* which is 1 / losSqrSize: every coordinate is scaled and truncated
ToLosSpace(r) ==
    Rect(TruncDiv(r.x1, losSqrSize), TruncDiv(r.z1, losSqrSize),
         TruncDiv(r.x2, losSqrSize), TruncDiv(r.z2, losSqrSize))

WholeMapRect == Rect(0, 0, mapx, mapy)

\* corners (x, z) of the corner grid inside r, bounds inclusive
CornerInRect(x, z, r) == r.x1 <= x /\ x <= r.x2 /\ r.z1 <= z /\ z <= r.z2

NumCorners == mapxp1 * mapyp1
NumSquares == mapx * mapy
CornerIdx(x, z) == z * mapxp1 + x
SquareIdx(x, z) == z * mapx + x

(***************************************************************************)
(* float3.                                                                 *)
(***************************************************************************)
Vec(x, y, z) == [x |-> x, y |-> y, z |-> z]
ZeroVector == Vec(0, 0, 0)

\* float3::Normalize on a vector of model heights: components of the unit
\* vector, scaled by 1024
Normalize(v) ==
    LET len == ISqrt(v.x * v.x + v.y * v.y + v.z * v.z)
    IN  IF len = 0 THEN v
        ELSE Vec(TruncDiv(NUnit(v.x), len), TruncDiv(NUnit(v.y), len), TruncDiv(NUnit(v.z), len))

\* float3::Normalize2D: y is dropped, (x, z) is normalized when non-zero
Normalize2D(v) ==
    LET len == ISqrt(v.x * v.x + v.z * v.z)
    IN  IF len = 0 THEN Vec(0, 0, 0)
        ELSE Vec(TruncDiv(NUnit(v.x), len), 0, TruncDiv(NUnit(v.z), len))

VecAdd(a, b) == Vec(a.x + b.x, a.y + b.y, a.z + b.z)

\* mix(v1, v2, a) = v1 + (v2 - v1) * a, with a = num / den
Mix(v1, v2, num, den) == v1 + TruncDiv((v2 - v1) * num, den)

(***************************************************************************)
(* Derivation pipeline: pure functions of the buffers they read.           *)
(***************************************************************************)
SquareX(i) == i % mapx
SquareZ(i) == i \div mapx

\* a center height taken from the top-left corner alone
UpdateCenterHeightmapTopLeft(hm, chm, rect) ==
    Stored([i \in 0..(NumSquares - 1) |->
        IF rect.x1 <= SquareX(i) /\ SquareX(i) <= rect.x2 /\
           rect.z1 <= SquareZ(i) /\ SquareZ(i) <= rect.z2
        THEN hm[SquareZ(i) * mapxp1 + SquareX(i)]
        ELSE chm[i]])

\* CReadMap::UpdateCenterHeightmap: hm is the synced corner grid, chm the
\* center grid before the call
UpdateCenterHeightmap(hm, chm, rect) ==
  Stored(
    [i \in 0..(NumSquares - 1) |->
        LET x == SquareX(i)
            y == SquareZ(i)
        IN  IF rect.x1 <= x /\ x <= rect.x2 /\ rect.z1 <= y /\ y <= rect.z2
            THEN LET idxTL == (y + 0) * mapxp1 + x + 0
                     idxTR == (y + 0) * mapxp1 + x + 1
                     idxBL == (y + 1) * mapxp1 + x + 0
                     idxBR == (y + 1) * mapxp1 + x + 1
                     height == hm[idxTL] + hm[idxTR] + hm[idxBL] + hm[idxBR]
                 IN  TruncDiv(height, 4)
            ELSE chm[i]])

\* number of cells of mip level i
MipSize(i) == Shr(mapx, i) * Shr(mapy, i)

\* the values sx, sx + 2, ... below ex
EvenSteps(s, e) == {v \in s..(e - 1) : (v - s) % 2 = 0}

\* one iteration i of the loop of UpdateMipHeightmaps: the level below
\* (subMipMap) computed from the level above (topMipMap)
UpdateMipLevel(topMipMap, subMipMap, rect, i) ==
    LET hmapxI == Shr(mapx, i)
        sx == ClearBit0(Shr(rect.x1, i))
        ex == Shr(rect.x2, i)
        sy == ClearBit0(Shr(rect.z1, i))
        ey == Shr(rect.z2, i)
        SubIdx(x, y) == (x \div 2) + ((y \div 2) * hmapxI) \div 2
        Height(x, y) ==
            topMipMap[(x    ) + (y    ) * hmapxI] +
            topMipMap[(x    ) + (y + 1) * hmapxI] +
            topMipMap[(x + 1) + (y    ) * hmapxI] +
            topMipMap[(x + 1) + (y + 1) * hmapxI]
        \* the last block written to cell k, in loop order (y outer, x inner)
        Writers(k) == {p \in EvenSteps(sy, ey) \X EvenSteps(sx, ex) : SubIdx(p[2], p[1]) = k}
        LastWriter(k) ==
            CHOOSE p \in Writers(k) :
                \A o \in Writers(k) : o[1] < p[1] \/ (o[1] = p[1] /\ o[2] <= p[2])
    IN  Stored([k \in DOMAIN subMipMap |->
            IF Writers(k) = {} THEN subMipMap[k]
            ELSE Only({ TruncDiv(Height(p[2], p[1]), 4) : p \in {LastWriter(k)} })])

RECURSIVE UpdateMipLevelsFrom(_, _, _, _)
UpdateMipLevelsFrom(i, chm, mips, rect) ==
    IF i >= numHeightMipMaps - 1 THEN mips
    ELSE Only({ UpdateMipLevelsFrom(i + 1, chm, next, rect) :
                    next \in {[mips EXCEPT ![i + 1] =
                                  UpdateMipLevel(IF i = 0 THEN chm ELSE mips[i],
                                                 mips[i + 1], rect, i)]} })

\* CReadMap::UpdateMipHeightmaps: chm is mip level 0 (the center grid, already
\* updated), mips the levels 1..numHeightMipMaps-1 before the call
UpdateMipHeightmaps(chm, mips, rect) == UpdateMipLevelsFrom(0, chm, mips, rect)

\* normal of the top-left triangle of a square
FaceNormalTL(hTL, hTR, hBL) ==
    Normalize(Vec(-(hTR - hTL), Fixed(SQUARE_SIZE), -(hBL - hTL)))

\* normal of the bottom-right triangle of a square
FaceNormalBR(hTR, hBL, hBR) ==
    Normalize(Vec(hBL - hBR, Fixed(SQUARE_SIZE), hTR - hBR))

\* the squares UpdateFaceNormals recomputes for rect
FaceNormalSquares(rect) ==
    LET z1 == Max(0, rect.z1 - 1)
        x1 == Max(0, rect.x1 - 1)
        z2 == Min(mapym1, rect.z2 + 1)
        x2 == Min(mapxm1, rect.x2 + 1)
    IN  {i \in 0..(NumSquares - 1) :
            x1 <= SquareX(i) /\ SquareX(i) <= x2 /\ z1 <= SquareZ(i) /\ SquareZ(i) <= z2}

\* the heights a corner can hold: 0 and 10.0
HeightValues == {Fixed(0), Fixed(10)}

\* the two face normals of a square with corner heights h = <<TL, TR, BL, BR>>,
\* tabulated over the heights of the model
FaceNormalsOf ==
    Stored([h \in HeightValues \X HeightValues \X HeightValues \X HeightValues |->
        [tl |-> FaceNormalTL(h[1], h[2], h[3]), br |-> FaceNormalBR(h[2], h[3], h[4])]])

SquareCorners(hm, i) ==
    LET idxTL == SquareZ(i) * mapxp1 + SquareX(i)
        idxBL == (SquareZ(i) + 1) * mapxp1 + SquareX(i)
    IN  <<hm[idxTL], hm[idxTL + 1], hm[idxBL], hm[idxBL + 1]>>

SquareFaceTL(hm, i) == FaceNormalsOf[SquareCorners(hm, i)].tl

SquareFaceBR(hm, i) == FaceNormalsOf[SquareCorners(hm, i)].br

\* (fnTL + fnBR).Normalize() and (fnTL + fnBR).Normalize2D(), tabulated alike
CenterNormalsOf ==
    Stored([h \in HeightValues \X HeightValues \X HeightValues \X HeightValues |->
        [c |-> Normalize(VecAdd(FaceNormalsOf[h].tl, FaceNormalsOf[h].br)),
         c2 |-> Normalize2D(VecAdd(FaceNormalsOf[h].tl, FaceNormalsOf[h].br))]])

\* normals whose flat center normals are read from the unsynced center normals
UpdateFaceNormalsFromUnsynced(hm, n, rect, initialize, unsyncedBuild) ==
    LET copy == unsyncedBuild /\ initialize
    IN  Only({
          Only({
            [faceNormalsSynced |-> fs,
             centerNormalsSynced |-> cs,
             centerNormals2D |->
                 [i \in 0..(NumSquares - 1) |->
                     IF i \in S THEN n.centerNormalsUnsynced[i]
                     ELSE n.centerNormals2D[i]],
             faceNormalsUnsynced |->
                 [f \in 0..(2 * NumSquares - 1) |->
                     IF copy /\ (f \div 2) \in S THEN fs[f] ELSE n.faceNormalsUnsynced[f]],
             centerNormalsUnsynced |->
                 [i \in 0..(NumSquares - 1) |->
                     IF copy /\ i \in S THEN cs[i] ELSE n.centerNormalsUnsynced[i]]] :
            cs \in {Stored([i \in 0..(NumSquares - 1) |->
                       IF i \in S THEN CenterNormalsOf[SquareCorners(hm, i)].c
                       ELSE n.centerNormalsSynced[i]])} }) :
          S \in {FaceNormalSquares(rect)},
          fs \in {Stored([f \in 0..(2 * NumSquares - 1) |->
                     IF (f \div 2) \in FaceNormalSquares(rect)
                     THEN IF f % 2 = 0 THEN SquareFaceTL(hm, f \div 2)
                                       ELSE SquareFaceBR(hm, f \div 2)
                     ELSE n.faceNormalsSynced[f]])} })

\* CReadMap::UpdateFaceNormals.  n holds the five normal buffers before the
\* call; unsyncedBuild is USE_UNSYNCED_HEIGHTMAP
UpdateFaceNormals(hm, n, rect, initialize, unsyncedBuild) ==
    LET copy == unsyncedBuild /\ initialize
    IN  Only({
          Only({
            [faceNormalsSynced |-> fs,
             centerNormalsSynced |-> cs,
             centerNormals2D |->
                 [i \in 0..(NumSquares - 1) |->
                     IF i \in S THEN CenterNormalsOf[SquareCorners(hm, i)].c2
                     ELSE n.centerNormals2D[i]],
             faceNormalsUnsynced |->
                 [f \in 0..(2 * NumSquares - 1) |->
                     IF copy /\ (f \div 2) \in S THEN fs[f] ELSE n.faceNormalsUnsynced[f]],
             centerNormalsUnsynced |->
                 [i \in 0..(NumSquares - 1) |->
                     IF copy /\ i \in S THEN cs[i] ELSE n.centerNormalsUnsynced[i]]] :
            cs \in {Stored([i \in 0..(NumSquares - 1) |->
                       IF i \in S THEN CenterNormalsOf[SquareCorners(hm, i)].c
                       ELSE n.centerNormalsSynced[i]])} }) :
          S \in {FaceNormalSquares(rect)},
          fs \in {Stored([f \in 0..(2 * NumSquares - 1) |->
                     IF (f \div 2) \in FaceNormalSquares(rect)
                     THEN IF f % 2 = 0 THEN SquareFaceTL(hm, f \div 2)
                                       ELSE SquareFaceBR(hm, f \div 2)
                     ELSE n.faceNormalsSynced[f]])} })

\* a slope whose interpolation factor is avgslope / maxslope
SlopeOfCellInverseLerp(fns, x, y) ==
    LET idx0 == (y * 2    ) * mapx + x * 2
        idx1 == (y * 2 + 1) * mapx + x * 2
        ys == << fns[(idx0    ) * 2    ].y, fns[(idx0    ) * 2 + 1].y,
                 fns[(idx0 + 1) * 2    ].y, fns[(idx0 + 1) * 2 + 1].y,
                 fns[(idx1    ) * 2    ].y, fns[(idx1    ) * 2 + 1].y,
                 fns[(idx1 + 1) * 2    ].y, fns[(idx1 + 1) * 2 + 1].y >>
        AvgSlope(n) == TruncDiv(n[1] + n[2] + n[3] + n[4] + n[5] + n[6] + n[7] + n[8], 8)
        MaxSlope(n) == CHOOSE m \in {n[j] : j \in 1..8} : \A j \in 1..8 : m <= n[j]
    IN  Only({ NUnit(1) - Mix(maxslope, avgslope, avgslope, maxslope) :
                   avgslope \in {AvgSlope(ys)}, maxslope \in {MaxSlope(ys)} })

\* slope of the slope-map cell (x, y) from the eight face normals over it
SlopeOfCell(fns, x, y) ==
    LET idx0 == (y * 2    ) * mapx + x * 2
        idx1 == (y * 2 + 1) * mapx + x * 2
        ys == << fns[(idx0    ) * 2    ].y, fns[(idx0    ) * 2 + 1].y,
                 fns[(idx0 + 1) * 2    ].y, fns[(idx0 + 1) * 2 + 1].y,
                 fns[(idx1    ) * 2    ].y, fns[(idx1    ) * 2 + 1].y,
                 fns[(idx1 + 1) * 2    ].y, fns[(idx1 + 1) * 2 + 1].y >>
        AvgSlope(n) == TruncDiv(n[1] + n[2] + n[3] + n[4] + n[5] + n[6] + n[7] + n[8], 8)
        MaxSlope(n) == CHOOSE m \in {n[j] : j \in 1..8} : \A j \in 1..8 : m <= n[j]
        \* lerp = maxslope / avgslope; slope = mix(maxslope, avgslope, lerp)
    IN  Only({ NUnit(1) - Mix(maxslope, avgslope, maxslope, avgslope) :
                   avgslope \in {AvgSlope(ys)}, maxslope \in {MaxSlope(ys)} })

\* a slope map that blends the new slope with the stored one
UpdateSlopemapBlended(fns, sm, rect) ==
    Stored([k \in 0..(hmapx * hmapy - 1) |->
        TruncDiv(sm[k] + SlopeOfCell(fns, k % hmapx, k \div hmapx), 2)])

\* CReadMap::UpdateSlopemap: fns are the synced face normals, already updated
UpdateSlopemap(fns, sm, rect) ==
    LET sx == Max(0,         TruncDiv(rect.x1, 2) - 1)
        ex == Min(hmapx - 1, TruncDiv(rect.x2, 2) + 1)
        sy == Max(0,         TruncDiv(rect.z1, 2) - 1)
        ey == Min(hmapy - 1, TruncDiv(rect.z2, 2) + 1)
    IN  Stored([k \in 0..(hmapx * hmapy - 1) |->
            LET x == k % hmapx
                y == k \div hmapx
            IN  IF sx <= x /\ x <= ex /\ sy <= y /\ y <= ey
                THEN SlopeOfCell(fns, x, y)
                ELSE sm[k]])

\* the two rectangles UpdateHeightMapSynced derives from its argument
CenterRectOf(r) ==
    Rect(Max(r.x1 - 1, 0), Max(r.z1 - 1, 0), Min(r.x2 + 1, mapxm1), Min(r.z2 + 1, mapym1))
\* the rectangle as given, without the one-cell margin
CornerRectUnexpanded(r) == r

CornerRectOf(r) ==
    Rect(Max(r.x1 - 1, 0), Max(r.z1 - 1, 0), Min(r.x2 + 1, mapx), Min(r.z2 + 1, mapy))

(***************************************************************************)
(* State.                                                                  *)
(***************************************************************************)
VARIABLES
    useUnsynced,               \* build option USE_UNSYNCED_HEIGHTMAP
    useDigests,                \* build option USE_HEIGHTMAP_DIGESTS
    heightMapSynced,           \* *heightMapSyncedPtr, corner heights
    heightMapUnsynced,         \* *heightMapUnsyncedPtr
    centerHeightMap,
    mipCenterHeightMaps,       \* levels 1..numHeightMipMaps-1
    faceNormalsSynced,
    faceNormalsUnsynced,
    centerNormalsSynced,
    centerNormalsUnsynced,
    centerNormals2D,
    slopeMap,
    unsyncedHeightMapUpdates,  \* the queue of rectangles to propagate
    syncedHeightMapDigests,
    unsyncedHeightMapDigests,
    inLos,                     \* losHandler: LOS squares seen by gu->myAllyTeam
    spectatingFullView,        \* gu->spectatingFullView
    lastOp,                    \* history: the operation that led to this state, the
                               \* corners it wrote, whether it repeats the call before
    trace,                     \* history: the calls that operation made, in order
    drainLog,                  \* history: every call made by UpdateDraw, when kept
    keepDrainLog,              \* whether drainLog is kept
    pendingAtStart,            \* history: the queue of the initial state
    numDrawCalls,              \* history: UpdateDraw calls on a non-empty queue
    numSyncedUpdates,          \* UpdateHeightMapSynced calls after Initialize
    numLosEvents,              \* LOS changes and UpdateLOS calls
    hmUpdated,                 \* a height was written since the last slice 0
    processingHeightBounds,    \* a paced scan is running
    initHeightBounds,          \* bounds at load, [x |-> min, y |-> max]
    tempHeightBounds,          \* provisional bounds of the running scan
    currHeightBounds,          \* the bounds readers see
    simdSize,                  \* SIMDVfloat::size of the build
    syncFrame,                 \* the next simulation frame
    mutatedAt,                 \* history: syncFrame at the latest height write, -1 if none
    lastScan,                  \* history: the latest UpdateTempHeightBoundsSIMD call
    mapFileHeightMap,          \* the corner heights as the map file holds them
    originalHeightMap,         \* the corner heights at the start of the match
    typeMap,                   \* terrain type per slope-map cell, bytes
    typeInfoMap,               \* GetInfoMap("type"): the map file's type map
    saved,                     \* the stream Serialize wrote, <<>> if none
    savedFrom,                 \* history: the maps Serialize wrote the stream from
    mapChecksum,               \* the checksum computed at load
    lastChecksum               \* history: what CalcHeightmapChecksum returned last, -1 if never called

derived == <<centerHeightMap, mipCenterHeightMaps, faceNormalsSynced,
             centerNormalsSynced, centerNormals2D, slopeMap>>

syncedSide == <<heightMapSynced, derived, syncedHeightMapDigests>>

unsyncedSide == <<heightMapUnsynced, faceNormalsUnsynced, centerNormalsUnsynced,
                  unsyncedHeightMapUpdates, unsyncedHeightMapDigests>>

environment == <<useUnsynced, useDigests, inLos, spectatingFullView>>

history == <<lastOp, trace, drainLog, keepDrainLog, pendingAtStart, numDrawCalls,
             numSyncedUpdates, numLosEvents>>

\* the height bounds tracker, but for hmUpdated and its history
tracker == <<processingHeightBounds, initHeightBounds, tempHeightBounds, currHeightBounds,
             simdSize, syncFrame, lastScan>>

\* what Serialize reads and writes besides the synced corner grid
persistence == <<mapFileHeightMap, originalHeightMap, typeMap, typeInfoMap, saved, savedFrom>>

checksums == <<mapChecksum, lastChecksum>>

vars == <<syncedSide, heightMapUnsynced, faceNormalsUnsynced, centerNormalsUnsynced,
          unsyncedHeightMapUpdates, unsyncedHeightMapDigests, environment, history,
          hmUpdated, mutatedAt, tracker, persistence, checksums>>

Event(ev, rect) == [ev |-> ev, rect |-> rect]

(***************************************************************************)
(* Visibility.                                                             *)
(***************************************************************************)
NumLosSquares == losSizeX * losSizeY
NumDigests == (losSizeX + 1) * (losSizeY + 1)

\* losHandler->InLos(CenterSqrToPos(ctrHgtMap, hmx, hmz), gu->myAllyTeam):
\* the position is clamped into the center heightmap, then looked up
InLos(los, hmx, hmz) ==
    LET cx == Clamp(hmx, 0, mapxm1)
        cz == Clamp(hmz, 0, mapym1)
    IN  los[(cx \div losSqrSize) + (cz \div losSqrSize) * losSizeX]

\* a digest comparison that never reports a change
ViewNeverChanged(digests, ud, sd, lmx, lmz) == FALSE

\* a digest comparison that always reports a change
ViewAlwaysChanged(digests, ud, sd, lmx, lmz) == TRUE

\* CReadMap::HasHeightMapViewChanged, the test alone
HasHeightMapViewChanged(digests, ud, sd, lmx, lmz) ==
    IF digests
    THEN ud[lmx + lmz * (losSizeX + 1)] # sd[lmx + lmz * (losSizeX + 1)]
    ELSE TRUE

\* a PushRect that pushes the running rectangle as it is
PushRectUnclamped(st, hmx, hmz, hgtMapRect) ==
    IF GetArea(st.sub) > 0
    THEN [st EXCEPT !.q = Append(st.q, st.sub),
                    !.sub = Rect(hmx + losSqrSize, hmz, hmx + losSqrSize, hmz + losSqrSize)]
    ELSE [st EXCEPT !.sub.x1 = hmx + losSqrSize, !.sub.x2 = hmx + losSqrSize]

\* the lambda PushRect of HeightMapUpdateLOSCheck; st holds the queue (q),
\* the unsynced digests (ud) and the running rectangle (sub)
PushRect(st, hmx, hmz, hgtMapRect) ==
    IF GetArea(st.sub) > 0
    THEN [st EXCEPT !.q = Append(st.q, ClampIn(st.sub, hgtMapRect)),
                    !.sub = Rect(hmx + losSqrSize, hmz, hmx + losSqrSize, hmz + losSqrSize)]
    ELSE [st EXCEPT !.sub.x1 = hmx + losSqrSize, !.sub.x2 = hmx + losSqrSize]

\* the inner loop of HeightMapUpdateLOSCheck over lmx, then the closing PushRect
RECURSIVE LosCheckRow(_, _, _, _, _)
LosCheckRow(st, lmx, lmz, losMapRect, c) ==
    LET hmz == lmz * losSqrSize
    IN  IF lmx > losMapRect.x2
        THEN PushRect(st, Max(lmx - 1, losMapRect.x1) * losSqrSize, hmz, c.rect)
        ELSE LET hmx == lmx * losSqrSize
                 idx == lmx + lmz * (losSizeX + 1)
                 after ==
                     IF ~(c.fullView \/ InLos(c.los, hmx, hmz))
                     THEN PushRect(st, hmx, hmz, c.rect)
                     ELSE IF ~HasHeightMapViewChanged(c.digests, st.ud, c.sd, lmx, lmz)
                     THEN PushRect(st, hmx, hmz, c.rect)
                     ELSE [st EXCEPT !.sub.x2 = hmx + losSqrSize,
                                     !.ud = IF c.digests
                                            THEN [st.ud EXCEPT ![idx] = c.sd[idx]]
                                            ELSE st.ud]
             IN  Only({ LosCheckRow(n, lmx + 1, lmz, losMapRect, c) : n \in {after} })

\* the outer loop of HeightMapUpdateLOSCheck over lmz
RECURSIVE LosCheckRows(_, _, _, _)
LosCheckRows(st, lmz, losMapRect, c) ==
    IF lmz > losMapRect.z2 THEN st
    ELSE LET hmz == lmz * losSqrSize
             hmx == losMapRect.x1 * losSqrSize
             st0 == [st EXCEPT !.sub = Rect(hmx, hmz, hmx, hmz + losSqrSize)]
         IN  Only({ LosCheckRows(n, lmz + 1, losMapRect, c) :
                        n \in {LosCheckRow(st0, losMapRect.x1, lmz, losMapRect, c)} })

\* CReadMap::HeightMapUpdateLOSCheck: the queue and the unsynced digests after
\* the call.  q, ud: queue and unsynced digests before; sd: synced digests;
\* los, fullView: what the LOS handler and gu report; digests: the build option
HeightMapUpdateLOSCheck(hgtMapRect, q, ud, sd, los, fullView, digests) ==
    LET c == [rect |-> hgtMapRect, sd |-> sd, los |-> los, fullView |-> fullView,
              digests |-> digests]
    IN  Only({ [q |-> st.q, ud |-> st.ud] :
                   st \in {LosCheckRows([q |-> q, ud |-> ud, sub |-> Rect(0, 0, 0, 0)],
                                        ToLosSpace(hgtMapRect).z1, ToLosSpace(hgtMapRect), c)} })

\* the digest loop of UpdateHeightMapSynced: bytes, overflow wraps
IncrementDigests(sd, centerRect) ==
    LET losMapRect == ToLosSpace(centerRect)
    IN  Stored([i \in DOMAIN sd |->
            LET lmx == i % (losSizeX + 1)
                lmz == i \div (losSizeX + 1)
            IN  IF losMapRect.x1 <= lmx /\ lmx <= losMapRect.x2 /\
                   losMapRect.z1 <= lmz /\ lmz <= losMapRect.z2
                THEN (sd[i] + 1) % 256
                ELSE sd[i]])

\* the call with, after Initialize, the slope map updated before the face
\* normals
UpdateHeightMapSyncedSlopesFirst(s, hgtMapRect) ==
    LET initialize == (hgtMapRect = WholeMapRect)
        centerRect == CenterRectOf(hgtMapRect)
        cornerRect == CornerRectOf(hgtMapRect)
    IN  Only({ Only({
            [chm |-> chm, mips |-> mips, nrm |-> nrm,
             slopes |-> UpdateSlopemap(IF initialize THEN nrm.faceNormalsSynced
                                       ELSE s.nrm.faceNormalsSynced, s.slopes, centerRect),
             sd |-> s.sd, q |-> Append(s.q, cornerRect), ud |-> s.ud,
             trace |-> << Event("UpdateCenterHeightmap", centerRect),
                          Event("UpdateMipHeightmaps", centerRect),
                          Event("UpdateSlopemap", centerRect),
                          Event("UpdateFaceNormals", centerRect),
                          Event("push_back", cornerRect) >>] :
                nrm \in {UpdateFaceNormals(s.hm, s.nrm, centerRect, initialize, s.useUnsynced)},
                mips \in {UpdateMipHeightmaps(chm, s.mips, centerRect)} }) :
                chm \in {UpdateCenterHeightmap(s.hm, s.chm, centerRect)} })

(***************************************************************************)
(* CReadMap::UpdateHeightMapSynced, as a function of the state s before    *)
(* the call (s.hm: the synced corner grid as the caller left it).          *)
(***************************************************************************)
UpdateHeightMapSyncedResult(s, hgtMapRect) ==
    LET initialize == (hgtMapRect = WholeMapRect)
        centerRect == CenterRectOf(hgtMapRect)
        cornerRect == CornerRectOf(hgtMapRect)
        \* the digest loop and the hand-over to the unsynced side
        Digests == IF s.useUnsynced /\ ~initialize /\ s.useDigests
                   THEN IncrementDigests(s.sd, centerRect)
                   ELSE s.sd
        HandOver(sd) ==
            IF s.useUnsynced /\ ~initialize
            THEN HeightMapUpdateLOSCheck(cornerRect, s.q, s.ud, sd, s.los,
                                         s.fullView, s.useDigests)
            ELSE [q |-> Append(s.q, cornerRect), ud |-> s.ud]
        Collect(chm, mips, nrm, slopes, sd, los) ==
            [chm |-> chm, mips |-> mips, nrm |-> nrm, slopes |-> slopes, sd |-> sd,
             q |-> los.q, ud |-> los.ud,
             trace |-> << Event("UpdateCenterHeightmap", centerRect),
                          Event("UpdateMipHeightmaps", centerRect),
                          Event("UpdateFaceNormals", centerRect),
                          Event("UpdateSlopemap", centerRect),
                          IF s.useUnsynced /\ ~initialize
                          THEN Event("HeightMapUpdateLOSCheck", cornerRect)
                          ELSE Event("push_back", cornerRect) >>]
    IN  Only({ Only({ Only({ Only({ Only({
            Collect(chm, mips, nrm, slopes, sd, los) :
                los \in {HandOver(sd)} }) :
                slopes \in {UpdateSlopemap(nrm.faceNormalsSynced, s.slopes, centerRect)},
                sd \in {Digests} }) :
                nrm \in {UpdateFaceNormals(s.hm, s.nrm, centerRect, initialize, s.useUnsynced)} }) :
                mips \in {UpdateMipHeightmaps(chm, s.mips, centerRect)} }) :
                chm \in {UpdateCenterHeightmap(s.hm, s.chm, centerRect)} })

\* the buffers UpdateHeightMapSynced reads, with hm for the synced corner grid
Current(hm) ==
    [hm |-> hm, chm |-> centerHeightMap, mips |-> mipCenterHeightMaps,
     nrm |-> [faceNormalsSynced |-> faceNormalsSynced,
              centerNormalsSynced |-> centerNormalsSynced,
              centerNormals2D |-> centerNormals2D,
              faceNormalsUnsynced |-> faceNormalsUnsynced,
              centerNormalsUnsynced |-> centerNormalsUnsynced],
     slopes |-> slopeMap, sd |-> syncedHeightMapDigests,
     ud |-> unsyncedHeightMapDigests, q |-> unsyncedHeightMapUpdates,
     los |-> inLos, fullView |-> spectatingFullView,
     useUnsynced |-> useUnsynced, useDigests |-> useDigests]

\* the assignments of one UpdateHeightMapSynced call; hm as above
ApplyUpdateHeightMapSynced(hm, hgtMapRect) ==
    \E r \in {Only({UpdateHeightMapSyncedResult(s, hgtMapRect) : s \in {Current(hm)}})} :
        /\ centerHeightMap' = r.chm
        /\ mipCenterHeightMaps' = r.mips
        /\ faceNormalsSynced' = r.nrm.faceNormalsSynced
        /\ centerNormalsSynced' = r.nrm.centerNormalsSynced
        /\ centerNormals2D' = r.nrm.centerNormals2D
        /\ faceNormalsUnsynced' = r.nrm.faceNormalsUnsynced
        /\ centerNormalsUnsynced' = r.nrm.centerNormalsUnsynced
        /\ slopeMap' = r.slopes
        /\ syncedHeightMapDigests' = r.sd
        /\ unsyncedHeightMapDigests' = r.ud
        /\ unsyncedHeightMapUpdates' = r.q
        /\ trace' = r.trace

(***************************************************************************)
(* Unsynced propagation.                                                   *)
(***************************************************************************)
\* CSMFReadMap::UpdateHeightMapUnsynced on the buffers u = [hm, fn, cn]:
\* the synced corner heights inside the rectangle are copied, the unsynced
\* face and center normals of its squares are refreshed
UpdateHeightMapUnsynced(u, update) ==
    LET InPatch(i) == update.x1 <= SquareX(i) /\ SquareX(i) <= Min(update.x2, mapxm1) /\
                      update.z1 <= SquareZ(i) /\ SquareZ(i) <= Min(update.z2, mapym1)
    IN  [hm |-> Stored([i \in 0..(NumCorners - 1) |->
                    IF CornerInRect(i % mapxp1, i \div mapxp1, update)
                    THEN heightMapSynced[i] ELSE u.hm[i]]),
         fn |-> Stored([f \in 0..(2 * NumSquares - 1) |->
                    IF InPatch(f \div 2) THEN faceNormalsSynced[f] ELSE u.fn[f]]),
         cn |-> Stored([i \in 0..(NumSquares - 1) |->
                    IF InPatch(i) THEN centerNormalsSynced[i] ELSE u.cn[i]])]

\* CRectangleOverlapHandler::Process: the layout pass that UpdateDraw runs on
\* the queue before draining it
Process(q, firstCall) == q

\* the first loop of UpdateDraw over the rectangles lo..hi of q, front first:
\* the rectangles up to the middle, then the rest on what they leave
RECURSIVE PropagateRange(_, _, _, _)
PropagateRange(u, q, lo, hi) ==
    IF lo > hi THEN u
    ELSE IF lo = hi THEN UpdateHeightMapUnsynced(u, q[lo])
    ELSE Only({ Only({ PropagateRange(v, q, mid + 1, hi) :
                           v \in {PropagateRange(u, q, lo, mid)} }) :
                    mid \in {(lo + hi) \div 2} })

PropagateFront(u, q, n) == PropagateRange(u, q, 1, n)

\* a drain without the per-frame cap
DrainCountUncapped(q) == Len(q)

\* the number of rectangles one UpdateDraw call handles
DrainCount(q) == Min(MAX_UHM_RECTS_PER_FRAME, Len(q))

\* a drain that notifies before it copies
DrawTraceNotifyFirst(q, n) ==
    [i \in 1..n |-> Event("UnsyncedHeightMapUpdate", q[i])] \o
    [i \in 1..n |-> Event("UpdateHeightMapUnsynced", q[i])] \o
    [i \in 1..n |-> Event("pop_front", q[i])]

\* a drain that copies the newest rectangle first
DrawTraceLastFirst(q, n) ==
    [i \in 1..n |-> Event("UpdateHeightMapUnsynced", q[n + 1 - i])] \o
    [i \in 1..n |-> Event("UnsyncedHeightMapUpdate", q[i])] \o
    [i \in 1..n |-> Event("pop_front", q[i])]

\* the calls of one UpdateDraw on the processed queue q, in program order
DrawTrace(q, n) ==
    [i \in 1..n |-> Event("UpdateHeightMapUnsynced", q[i])] \o
    [i \in 1..n |-> Event("UnsyncedHeightMapUpdate", q[i])] \o
    [i \in 1..n |-> Event("pop_front", q[i])]

\* a pop loop that stops one rectangle early
PopFrontOneLess(q, n) == SubSeq(q, n, Len(q))

\* the queue after the pop loop of UpdateDraw
PopFront(q, n) == SubSeq(q, n + 1, Len(q))

(***************************************************************************)
(* Bit patterns and the heightmap checksum.                                *)
(***************************************************************************)
RECURSIVE Pow2(_)
Pow2(n) == IF n = 0 THEN 1 ELSE 2 * Pow2(n - 1)

\* a ^ b on words of n bits
RECURSIVE BitXor(_, _, _)
BitXor(a, b, n) ==
    IF n = 0 THEN 0 ELSE ((a + b) % 2) + 2 * BitXor(a \div 2, b \div 2, n - 1)

\* the position of the highest set bit of n > 0
RECURSIVE TopBit(_)
TopBit(n) == IF n <= 1 THEN 0 ELSE 1 + TopBit(n \div 2)

\* the raw bit pattern of a float: the IEEE-754 single of the height f / 64,
\* as its four bytes in memory order (little endian)
FloatBits(f) ==
    IF f = 0 THEN << 0, 0, 0, 0 >>
    ELSE LET a == IF f < 0 THEN -f ELSE f
             e == TopBit(a)
             mantissa == (a - Pow2(e)) * Pow2(23 - e)
             high == (IF f < 0 THEN Pow2(15) ELSE 0) + (e - 6 + 127) * Pow2(7) +
                     (mantissa \div Pow2(16))
             low == mantissa % Pow2(16)
         IN  << low % 256, low \div 256, high % 256, high \div 256 >>

\* mapInfo->map.name
MapName == << 109, 97, 112 >>

\* one byte folded into the running checksum: add, xor with a left shift, add
\* a right shift, on ChecksumBits bits
HashByte(cs, b) ==
    Only({ (x + (x \div Pow2(ChecksumBits \div 2 - 1))) % Pow2(ChecksumBits) :
           x \in { BitXor(a, (a * Pow2(ChecksumBits \div 2)) % Pow2(ChecksumBits),
                          ChecksumBits) :
                   a \in {(cs + b) % Pow2(ChecksumBits)} } })

\* spring::LiteHash(p, size, cs0): the bytes from position i on folded, in
\* order, into the running checksum
RECURSIVE LiteHash(_, _, _)
LiteHash(bytes, i, cs) ==
    IF i > Len(bytes) THEN cs
    ELSE \* the running value is computed once, then passed on
         Only({ LiteHash(bytes, i + 1, c) : c \in {HashByte(cs, bytes[i])} })

\* the loop of CalcHeightmapChecksum over the corners from i on
RECURSIVE FoldChecksum(_, _, _)
FoldChecksum(hm, i, cs) ==
    IF i >= NumCorners THEN cs
    ELSE Only({ FoldChecksum(hm, i + 1, c) :
                c \in {LiteHash(FloatBits(hm[i]), 1, cs)} })

\* a load-time checksum that leaves the map name out
LoadChecksumNoName(hm) == FoldChecksum(hm, 0, 0)

\* the checksum part of CReadMap::LoadOriginalHeightMapAndChecksum
LoadChecksum(hm) == LiteHash(MapName, 1, FoldChecksum(hm, 0, 0))

\* a variant that leaves the map name out
CalcHeightmapChecksumNoName(hm) == FoldChecksum(hm, 0, 0)

\* CReadMap::CalcHeightmapChecksum
CalcHeightmapChecksum(hm) == LiteHash(MapName, 1, FoldChecksum(hm, 0, 0))

(***************************************************************************)
(* Differential persistence: Serialize, writing and reading.               *)
(***************************************************************************)
\* GetInfoMap("type") of a map without a type map
nullptr == <<>>

\* the floats the model has numbers for: the heights it writes, and one that
\* stands for every other float
OtherFloat == -1
ModelHeights == {Fixed(0), Fixed(10), Fixed(-5), Fixed(20), OtherFloat}

\* the bit patterns of the floats of the model
HeightBits == [f \in ModelHeights |-> FloatBits(f)]

\* the float a 32-bit word is the bit pattern of
FloatOf(w) ==
    IF \E f \in ModelHeights : HeightBits[f] = w
    THEN CHOOSE f \in ModelHeights : HeightBits[f] = w
    ELSE OtherFloat

\* a ^ b on int32 words held as four bytes
XorWord(a, b) == [k \in 1..4 |-> BitXor(a[k], b[k], 8)]

\* SerializeMapChanges, s->IsWriting(): the words written
SerializeMapChangesWrite(refHeightMap, modifiedHeightMap) ==
    [i \in 1..NumCorners |->
        XorWord(HeightBits[modifiedHeightMap[i - 1]], HeightBits[refHeightMap[i - 1]])]

\* SerializeMapChanges, reading: the modified height map rebuilt from the words
SerializeMapChangesRead(words, refHeightMap) ==
    Stored([i \in 0..(NumCorners - 1) |->
               FloatOf(XorWord(words[i + 1], HeightBits[refHeightMap[i]]))])

\* SerializeTypeMap, writing: the bytes written, none without a type info map
SerializeTypeMapWrite(itm, iotm) ==
    IF iotm = nullptr THEN <<>>
    ELSE [i \in 1..(hmapx * hmapy) |-> BitXor(itm[i - 1], iotm[i - 1], 8)]

\* SerializeTypeMap, reading: the type map rebuilt from the bytes
SerializeTypeMapRead(bytes, itm, iotm) ==
    IF iotm = nullptr THEN itm
    ELSE [i \in 0..(hmapx * hmapy - 1) |-> BitXor(bytes[i + 1], iotm[i], 8)]

\* CReadMap::Serialize, writing: the stream
SerializeWrite(mapFile, original, current, itm, iotm) ==
    SerializeMapChangesWrite(mapFile, original) \o
    SerializeMapChangesWrite(original, current) \o
    SerializeTypeMapWrite(itm, iotm)

\* a variant that rebuilds the current grid against the original height map
\* the reading instance had before the read
SerializeReadCurrentFirst(stream, mapFile, original, itm, iotm) ==
    [current  |-> SerializeMapChangesRead(SubSeq(stream, NumCorners + 1, 2 * NumCorners),
                                          original),
     original |-> SerializeMapChangesRead(SubSeq(stream, 1, NumCorners), mapFile),
     types    |-> SerializeTypeMapRead(SubSeq(stream, 2 * NumCorners + 1, Len(stream)),
                                       itm, iotm),
     order    |-> << "heightMapSynced", "originalHeightMap", "typeMap" >>]

\* CReadMap::Serialize, reading, into an instance that holds mapFile,
\* original and itm: what it holds afterwards, and the order of the restores
SerializeRead(stream, mapFile, original, itm, iotm) ==
    Only({ [original |-> restored,
            current  |-> SerializeMapChangesRead(
                             SubSeq(stream, NumCorners + 1, 2 * NumCorners), restored),
            types    |-> SerializeTypeMapRead(
                             SubSeq(stream, 2 * NumCorners + 1, Len(stream)), itm, iotm),
            order    |-> << "originalHeightMap", "heightMapSynced", "typeMap" >>] :
           restored \in {SerializeMapChangesRead(SubSeq(stream, 1, NumCorners), mapFile)} })

(***************************************************************************)
(* Height bounds: the SIMD scan, the full rescan and the paced scan.       *)
(***************************************************************************)
Bounds(x, y) == [x |-> x, y |-> y]

\* the bounds a scan starts from
ResetBounds == Bounds(FloatMax, FloatLowest)

\* the vectorized loop of UpdateTempHeightBoundsSIMD: acc holds the lanes of
\* smin and smax and the indices loaded so far
RECURSIVE SimdLoop(_, _, _, _, _, _)
SimdLoop(hm, acc, lanes, idxBeg, idxRel, vecSize) ==
    IF idxRel >= vecSize THEN acc
    ELSE Only({ SimdLoop(hm, n, lanes, idxBeg, idxRel + lanes, vecSize) :
            n \in {[smin |-> Stored([l \in 0..(lanes - 1) |->
                                 Min(hm[idxBeg + idxRel + l], acc.smin[l])]),
                    smax |-> Stored([l \in 0..(lanes - 1) |->
                                 Max(hm[idxBeg + idxRel + l], acc.smax[l])]),
                    reads |-> acc.reads \cup
                                 {idxBeg + idxRel + l : l \in 0..(lanes - 1)}]} })

\* the scalar part: the lanes i..lanes-1 folded into the bounds b
RECURSIVE FoldLanes(_, _, _, _)
FoldLanes(b, acc, i, lanes) ==
    IF i >= lanes THEN b
    ELSE Only({ FoldLanes(n, acc, i + 1, lanes) :
                    n \in {Bounds(Min(acc.smin[i], b.x), Max(acc.smax[i], b.y))} })

\* the remaining part: the heights idxBeg+idxRel .. idxBeg+indCnt-1 folded
\* into b, one by one
RECURSIVE FoldHeights(_, _, _, _, _)
FoldHeights(b, hm, idxBeg, idxRel, indCnt) ==
    IF idxRel >= indCnt THEN b
    ELSE Only({ FoldHeights(n, hm, idxBeg, idxRel + 1, indCnt) :
                    n \in {Bounds(Min(hm[idxBeg + idxRel], b.x),
                                  Max(hm[idxBeg + idxRel], b.y))} })

\* a scan that skips the part that cannot be vectorized
UpdateTempHeightBoundsSIMDNoTail(hm, temp, lanes, idxBeg, idxEnd) ==
    LET indCnt == idxEnd - idxBeg
        vecSize == indCnt - (indCnt % lanes)
    IN  Only({ [bounds |-> FoldLanes(temp, acc, 0, lanes), reads |-> acc.reads] :
            acc \in {SimdLoop(hm, [smin |-> [l \in 0..(lanes - 1) |-> temp.x],
                                   smax |-> [l \in 0..(lanes - 1) |-> temp.y],
                                   reads |-> {}], lanes, idxBeg, 0, vecSize)} })

\* CReadMap::UpdateTempHeightBoundsSIMD on the corner grid hm with
\* tempHeightBounds = temp and lanes = SIMDVfloat::size: the new
\* tempHeightBounds and the indices of hm it read
UpdateTempHeightBoundsSIMD(hm, temp, lanes, idxBeg, idxEnd) ==
    LET indCnt == idxEnd - idxBeg
        vecSize == indCnt - (indCnt % lanes)
    IN  Only({ [bounds |-> FoldHeights(FoldLanes(temp, acc, 0, lanes), hm, idxBeg,
                                      vecSize, indCnt),
                reads |-> acc.reads \cup {idxBeg + r : r \in vecSize..(indCnt - 1)}] :
            acc \in {SimdLoop(hm, [smin |-> [l \in 0..(lanes - 1) |-> temp.x],
                                   smax |-> [l \in 0..(lanes - 1) |-> temp.y],
                                   reads |-> {}], lanes, idxBeg, 0, vecSize)} })

\* a slice start rounded up instead of down
SliceBegRoundedUp(dataChunk) ==
    ((dataChunk + 0) * mapxp1 * mapyp1 + PACING_PERIOD - 1) \div PACING_PERIOD

\* the slice of the corner grid the paced scan reads at dataChunk
SliceBeg(dataChunk) == ((dataChunk + 0) * mapxp1 * mapyp1) \div PACING_PERIOD
SliceEnd(dataChunk) == ((dataChunk + 1) * mapxp1 * mapyp1) \div PACING_PERIOD

\* a paced step that keeps the provisional bounds of the scan before
UpdateHeightBoundsNoReset(b, hm, lanes, frame) ==
    LET dataChunk == frame % PACING_PERIOD
        processing == IF dataChunk = 0 THEN b.updated ELSE b.processing
        scan == UpdateTempHeightBoundsSIMD(hm, b.temp, lanes, SliceBeg(dataChunk),
                                           SliceEnd(dataChunk))
    IN  [curr |-> IF dataChunk = 0 /\ b.processing THEN b.temp ELSE b.curr,
         processing |-> processing,
         updated |-> IF dataChunk = 0 THEN FALSE ELSE b.updated,
         temp |-> IF processing THEN scan.bounds ELSE b.temp,
         scan |-> [idxBeg |-> SliceBeg(dataChunk), idxEnd |-> SliceEnd(dataChunk),
                   prior |-> b.temp, reads |-> scan.reads]]

\* a paced step that commits the provisional bounds at every slice 0
UpdateHeightBoundsAlwaysCommit(b, hm, lanes, frame) ==
    LET dataChunk == frame % PACING_PERIOD
        scan == UpdateTempHeightBoundsSIMD(hm, IF dataChunk = 0 THEN ResetBounds ELSE b.temp,
                                           lanes, SliceBeg(dataChunk), SliceEnd(dataChunk))
    IN  [curr |-> IF dataChunk = 0 THEN b.temp ELSE b.curr,
         processing |-> TRUE, updated |-> b.updated /\ dataChunk # 0,
         temp |-> scan.bounds,
         scan |-> [idxBeg |-> SliceBeg(dataChunk), idxEnd |-> SliceEnd(dataChunk),
                   prior |-> b.temp, reads |-> scan.reads]]

\* a paced step that starts no scan at the end of a cycle that was scanning
UpdateHeightBoundsNoRescan(b, hm, lanes, frame) ==
    LET dataChunk == frame % PACING_PERIOD
        curr == IF dataChunk = 0 /\ b.processing THEN b.temp ELSE b.curr
        processing == IF dataChunk = 0 THEN b.updated /\ ~b.processing ELSE b.processing
        updated == IF dataChunk = 0 THEN FALSE ELSE b.updated
        start == IF dataChunk = 0 THEN ResetBounds ELSE b.temp
    IN  IF ~processing
        THEN [curr |-> curr, processing |-> processing, updated |-> updated,
              temp |-> b.temp,
              scan |-> [idxBeg |-> -1, idxEnd |-> -1, prior |-> b.temp, reads |-> {}]]
        ELSE Only({ [curr |-> curr, processing |-> processing, updated |-> updated,
                     temp |-> scan.bounds,
                     scan |-> [idxBeg |-> SliceBeg(dataChunk), idxEnd |-> SliceEnd(dataChunk),
                               prior |-> start, reads |-> scan.reads]] :
                scan \in {UpdateTempHeightBoundsSIMD(hm, start, lanes, SliceBeg(dataChunk),
                                                     SliceEnd(dataChunk))} })

\* CReadMap::UpdateHeightBounds(int syncFrame) on the tracker state
\* b = [curr, temp, processing, updated]: the state after the call and the
\* scan it made (scan.idxBeg = -1 if none)
UpdateHeightBounds(b, hm, lanes, frame) ==
    LET dataChunk == frame % PACING_PERIOD
        curr == IF dataChunk = 0 /\ b.processing THEN b.temp ELSE b.curr
        processing == IF dataChunk = 0 THEN b.updated ELSE b.processing
        updated == IF dataChunk = 0 THEN FALSE ELSE b.updated
        start == IF dataChunk = 0 THEN ResetBounds ELSE b.temp
    IN  IF ~processing
        THEN [curr |-> curr, processing |-> processing, updated |-> updated,
              temp |-> b.temp,
              scan |-> [idxBeg |-> -1, idxEnd |-> -1, prior |-> b.temp, reads |-> {}]]
        ELSE Only({ [curr |-> curr, processing |-> processing, updated |-> updated,
                     temp |-> scan.bounds,
                     scan |-> [idxBeg |-> SliceBeg(dataChunk), idxEnd |-> SliceEnd(dataChunk),
                               prior |-> start, reads |-> scan.reads]] :
                scan \in {UpdateTempHeightBoundsSIMD(hm, start, lanes, SliceBeg(dataChunk),
                                                     SliceEnd(dataChunk))} })

\* CReadMap::UpdateHeightBounds(): the full rescan
UpdateHeightBoundsFull(hm, lanes) ==
    Only({ [curr |-> scan.bounds, temp |-> scan.bounds,
            scan |-> [idxBeg |-> 0, idxEnd |-> mapxp1 * mapyp1, prior |-> ResetBounds,
                      reads |-> scan.reads]] :
        scan \in {UpdateTempHeightBoundsSIMD(hm, ResetBounds, lanes, 0, mapxp1 * mapyp1)} })

\* the loop of LoadOriginalHeightMapAndChecksum over the corners i..: the
\* initial bounds
RECURSIVE InitialBoundsFrom(_, _, _)
InitialBoundsFrom(b, hm, i) ==
    IF i >= mapxp1 * mapyp1 THEN b
    ELSE Only({ InitialBoundsFrom(n, hm, i + 1) :
                    n \in {Bounds(Min(b.x, hm[i]), Max(b.y, hm[i]))} })

NoScan == [idxBeg |-> -1, idxEnd |-> -1, prior |-> ResetBounds, reads |-> {}]

\* the tracker as InitHeightBounds leaves it for the corner grid hm; updated
\* is hmUpdated (PostLoad sets it), lanes the SIMD width of the build
InitHeightBounds(hm, updated, lanes) ==
    /\ initHeightBounds = InitialBoundsFrom(ResetBounds, hm, 0)
    /\ tempHeightBounds = ResetBounds
    /\ currHeightBounds = initHeightBounds
    /\ hmUpdated = updated
    /\ processingHeightBounds = FALSE
    /\ simdSize = lanes
    /\ syncFrame = 0
    /\ mutatedAt = -1
    /\ lastScan = NoScan
    /\ mapFileHeightMap = hm
    /\ originalHeightMap = hm
    /\ mapChecksum = LoadChecksum(hm)
    /\ lastChecksum = -1

\* a type map of zeros, as Initialize resizes it
NoTypes == [k \in 0..(hmapx * hmapy - 1) |-> 0]

\* CReadMap::LoadMap: the type map is copied from the map file's info map
LoadTypeMap(types) ==
    /\ typeInfoMap = types
    /\ typeMap = (IF types = nullptr THEN NoTypes ELSE types)
    /\ saved = <<>>
    /\ savedFrom = <<>>

(***************************************************************************)
(* Initial state: CReadMap::Initialize on a loaded corner grid, followed   *)
(* by InitHeightMapDigestVectors.                                          *)
(***************************************************************************)
\* corner grids the loader may hand over: flat at 0, and a ridge of height
\* 10.0 along the column x = 2
FlatMap == [i \in 0..(NumCorners - 1) |-> Fixed(0)]
RidgeMap == [i \in 0..(NumCorners - 1) |-> IF i % mapxp1 = 2 THEN Fixed(10) ELSE Fixed(0)]
InitialHeightMaps == {FlatMap, RidgeMap}

\* the buffers as Initialize has resized them, before its call of
\* UpdateHeightMapSynced
Resized(hm, unsyncedBuild, digests) ==
    [hm |-> hm,
     chm |-> [i \in 0..(NumSquares - 1) |-> 0],
     mips |-> [l \in 1..(numHeightMipMaps - 1) |-> [k \in 0..(MipSize(l) - 1) |-> 0]],
     nrm |-> [faceNormalsSynced |-> [f \in 0..(2 * NumSquares - 1) |-> ZeroVector],
              centerNormalsSynced |-> [i \in 0..(NumSquares - 1) |-> ZeroVector],
              centerNormals2D |-> [i \in 0..(NumSquares - 1) |-> ZeroVector],
              faceNormalsUnsynced |-> [f \in 0..(2 * NumSquares - 1) |-> ZeroVector],
              centerNormalsUnsynced |-> [i \in 0..(NumSquares - 1) |-> ZeroVector]],
     slopes |-> [k \in 0..(hmapx * hmapy - 1) |-> 0],
     sd |-> [i \in 0..(NumDigests - 1) |-> 0],
     ud |-> [i \in 0..(NumDigests - 1) |-> 0],
     q |-> <<>>,
     los |-> [i \in 0..(NumLosSquares - 1) |-> FALSE],
     fullView |-> FALSE,
     useUnsynced |-> unsyncedBuild, useDigests |-> digests]

\* the state Initialize leaves for the corner grid hm, with the unsynced
\* corner grid uhm the map reader allocated; backlog holds the rectangles
\* queued since
Initialized(hm, uhm, unsyncedBuild, digests, los, backlog) ==
    \E r \in {Only({UpdateHeightMapSyncedResult(s, WholeMapRect) :
                        s \in {Resized(hm, unsyncedBuild, digests)}})} :
        /\ useUnsynced = unsyncedBuild
        /\ useDigests = digests
        /\ heightMapSynced = hm
        /\ heightMapUnsynced = (IF unsyncedBuild THEN uhm ELSE hm)
        /\ centerHeightMap = r.chm
        /\ mipCenterHeightMaps = r.mips
        /\ faceNormalsSynced = r.nrm.faceNormalsSynced
        /\ centerNormalsSynced = r.nrm.centerNormalsSynced
        /\ centerNormals2D = r.nrm.centerNormals2D
        /\ faceNormalsUnsynced = r.nrm.faceNormalsUnsynced
        /\ centerNormalsUnsynced = r.nrm.centerNormalsUnsynced
        /\ slopeMap = r.slopes
        /\ syncedHeightMapDigests = r.sd
        /\ unsyncedHeightMapDigests = r.ud
        /\ unsyncedHeightMapUpdates = r.q \o backlog
        /\ inLos = los
        /\ spectatingFullView = FALSE
        /\ lastOp = [op |-> "Initialize", rect |-> WholeMapRect, written |-> {}, again |-> FALSE]
        /\ trace = r.trace
        /\ numSyncedUpdates = 0
        /\ numLosEvents = 0
        /\ numDrawCalls = 0

AllInLos(v) == [i \in 0..(NumLosSquares - 1) |-> v]

Init ==
    /\ \E hm \in InitialHeightMaps :
           /\ Initialized(hm, [i \in 0..(NumCorners - 1) |-> 0], TRUE, TRUE,
                          AllInLos(FALSE), <<>>)
           /\ InitHeightBounds(hm, FALSE, 4)
    /\ LoadTypeMap(NoTypes)
    /\ keepDrainLog = FALSE
    /\ drainLog = <<>>
    /\ pendingAtStart = unsyncedHeightMapUpdates

(***************************************************************************)
(* Operations.                                                             *)
(***************************************************************************)
\* rectangles the simulation hands to UpdateHeightMapSynced: an inner block,
\* the map's first corner, a single inner corner, a block on the far edge,
\* and the whole map
WriteRects ==
    {Rect(1, 1, 3, 3), Rect(0, 0, 0, 0), Rect(2, 2, 2, 2), Rect(3, 3, 4, 4), WholeMapRect}

\* the corner of r a mutation writes: its middle
WrittenCorner(r) == CornerIdx((r.x1 + r.x2) \div 2, (r.z1 + r.z2) \div 2)

Budget == numSyncedUpdates < MaxSyncedUpdates

\* a synced mutation (map damage, Lua): corner c inside r is set to another
\* height v, then UpdateHeightMapSynced(r) runs
Mutate(r, c, v) ==
    LET hm == [heightMapSynced EXCEPT ![c] = v]
    IN  /\ Budget
        /\ v # heightMapSynced[c]
        /\ heightMapSynced' = hm
        /\ heightMapUnsynced' = (IF useUnsynced THEN heightMapUnsynced ELSE hm)
        /\ ApplyUpdateHeightMapSynced(hm, r)
        /\ lastOp' = [op |-> "UpdateHeightMapSynced", rect |-> r, written |-> {c},
                      again |-> FALSE]
        /\ numSyncedUpdates' = numSyncedUpdates + 1
        /\ UNCHANGED <<environment, drainLog, keepDrainLog, pendingAtStart,
                       numDrawCalls, numLosEvents>>
        /\ hmUpdated' = TRUE
        /\ mutatedAt' = syncFrame
        /\ UNCHANGED <<tracker, persistence, checksums>>

\* the operation before was UpdateHeightMapSynced with this rectangle
SameRectAsLastCall(r) ==
    lastOp.op \in {"Initialize", "UpdateHeightMapSynced"} /\ lastOp.rect = r

\* UpdateHeightMapSynced(r) with no write before it
Reapply(r) ==
    /\ Budget
    /\ ApplyUpdateHeightMapSynced(heightMapSynced, r)
    /\ lastOp' = [op |-> "UpdateHeightMapSynced", rect |-> r, written |-> {},
                  again |-> SameRectAsLastCall(r)]
    /\ numSyncedUpdates' = numSyncedUpdates + 1
    /\ UNCHANGED <<heightMapSynced, heightMapUnsynced, environment, drainLog,
                   keepDrainLog, pendingAtStart, numDrawCalls, numLosEvents>>
    /\ UNCHANGED <<hmUpdated, mutatedAt, tracker, persistence, checksums>>

\* CReadMap::UpdateDraw
UpdateDraw(firstCall) ==
    /\ lastOp' = [op |-> "UpdateDraw", rect |-> WholeMapRect, written |-> {}, again |-> FALSE]
    /\ IF unsyncedHeightMapUpdates = <<>>
       THEN /\ trace' = <<>>
            /\ UNCHANGED <<heightMapUnsynced, faceNormalsUnsynced, centerNormalsUnsynced,
                           unsyncedHeightMapUpdates, drainLog, numDrawCalls>>
       ELSE \E q \in {Process(unsyncedHeightMapUpdates, firstCall)} :
            \E N \in {DrainCount(q)} :
            \E u \in {PropagateFront([hm |-> heightMapUnsynced, fn |-> faceNormalsUnsynced,
                                      cn |-> centerNormalsUnsynced], q, N)} :
                /\ heightMapUnsynced' = u.hm
                /\ faceNormalsUnsynced' = u.fn
                /\ centerNormalsUnsynced' = u.cn
                /\ unsyncedHeightMapUpdates' = PopFront(q, N)
                /\ trace' = DrawTrace(q, N)
                /\ drainLog' = (IF keepDrainLog THEN drainLog \o DrawTrace(q, N) ELSE drainLog)
                /\ numDrawCalls' = (IF keepDrainLog THEN numDrawCalls + 1 ELSE numDrawCalls)
    /\ UNCHANGED <<syncedSide, unsyncedHeightMapDigests, environment, keepDrainLog,
                   pendingAtStart, numSyncedUpdates, numLosEvents>>
    /\ UNCHANGED <<hmUpdated, mutatedAt, tracker, persistence, checksums>>

\* the heightmap rectangle of LOS square s
LosSquareRect(s) ==
    LET hmx == (s % losSizeX) * losSqrSize
        hmz == (s \div losSizeX) * losSqrSize
    IN  Rect(hmx, hmz, hmx + losSqrSize, hmz + losSqrSize)

\* CReadMap::UpdateLOS
UpdateLOS(hgtMapRect, los) ==
    IF spectatingFullView
    THEN /\ trace' = <<>>
         /\ UNCHANGED <<unsyncedHeightMapUpdates, unsyncedHeightMapDigests>>
    ELSE \E r \in {HeightMapUpdateLOSCheck(hgtMapRect, unsyncedHeightMapUpdates,
                       unsyncedHeightMapDigests, syncedHeightMapDigests, los,
                       spectatingFullView, useDigests)} :
             /\ unsyncedHeightMapUpdates' = r.q
             /\ unsyncedHeightMapDigests' = r.ud
             /\ trace' = <<Event("HeightMapUpdateLOSCheck", hgtMapRect)>>

LosBudget == numLosEvents < MaxLosEvents

\* the LOS handler: square s comes into view, which it reports by UpdateLOS
GainLos(s) ==
    /\ LosBudget
    /\ useUnsynced
    /\ ~inLos[s]
    /\ inLos' = [inLos EXCEPT ![s] = TRUE]
    /\ UpdateLOS(LosSquareRect(s), inLos')
    /\ lastOp' = [op |-> "GainLos", rect |-> LosSquareRect(s), written |-> {}, again |-> FALSE]
    /\ numLosEvents' = numLosEvents + 1
    /\ UNCHANGED <<syncedSide, heightMapUnsynced, faceNormalsUnsynced, centerNormalsUnsynced,
                   useUnsynced, useDigests, spectatingFullView, drainLog, keepDrainLog,
                   pendingAtStart, numDrawCalls, numSyncedUpdates>>
    /\ UNCHANGED <<hmUpdated, mutatedAt, tracker, persistence, checksums>>

\* the LOS handler: square s goes out of view
LoseLos(s) ==
    /\ LosBudget
    /\ useUnsynced
    /\ inLos[s]
    /\ inLos' = [inLos EXCEPT ![s] = FALSE]
    /\ lastOp' = [op |-> "LoseLos", rect |-> LosSquareRect(s), written |-> {}, again |-> FALSE]
    /\ trace' = <<>>
    /\ numLosEvents' = numLosEvents + 1
    /\ UNCHANGED <<syncedSide, unsyncedSide, useUnsynced, useDigests, spectatingFullView,
                   drainLog, keepDrainLog, pendingAtStart, numDrawCalls, numSyncedUpdates>>
    /\ UNCHANGED <<hmUpdated, mutatedAt, tracker, persistence, checksums>>

\* the local player becomes a full-view spectator: CReadMap::BecomeSpectator
BecomeSpectator ==
    /\ LosBudget
    /\ useUnsynced
    /\ ~spectatingFullView
    /\ spectatingFullView' = TRUE
    /\ \E r \in {HeightMapUpdateLOSCheck(WholeMapRect, unsyncedHeightMapUpdates,
                     unsyncedHeightMapDigests, syncedHeightMapDigests, inLos, TRUE, useDigests)} :
           /\ unsyncedHeightMapUpdates' = r.q
           /\ unsyncedHeightMapDigests' = r.ud
    /\ trace' = <<Event("HeightMapUpdateLOSCheck", WholeMapRect)>>
    /\ lastOp' = [op |-> "BecomeSpectator", rect |-> WholeMapRect, written |-> {}, again |-> FALSE]
    /\ numLosEvents' = numLosEvents + 1
    /\ UNCHANGED <<syncedSide, heightMapUnsynced, faceNormalsUnsynced, centerNormalsUnsynced,
                   useUnsynced, useDigests, inLos, drainLog, keepDrainLog, pendingAtStart,
                   numDrawCalls, numSyncedUpdates>>
    /\ UNCHANGED <<hmUpdated, mutatedAt, tracker, persistence, checksums>>

Next ==
    \/ \E r \in WriteRects, v \in HeightValues : Mutate(r, WrittenCorner(r), v)
    \/ \E r \in WriteRects : Reapply(r)
    \/ \E firstCall \in BOOLEAN : UpdateDraw(firstCall)
    \/ \E s \in 0..(NumLosSquares - 1) : GainLos(s)
    \/ \E s \in 0..(NumLosSquares - 1) : LoseLos(s)
    \/ BecomeSpectator

Spec == Init /\ [][Next]_vars

(***************************************************************************)
(* Properties of the visibility-gated propagation.                         *)
(***************************************************************************)
CornerX(c) == c % mapxp1
CornerZ(c) == c \div mapxp1
Corners == 0..(NumCorners - 1)

\* corner c lies in a rectangle of the queue q
Covered(c, q) ==
    \E k \in 1..Len(q) : CornerInRect(CornerX(c), CornerZ(c), q[k])

\* corner c lies in a LOS square the local ally team observes, or the local
\* player is a full-view spectator
CornerObserved(c) ==
    \/ spectatingFullView
    \/ \E s \in 0..(NumLosSquares - 1) :
           inLos[s] /\ CornerInRect(CornerX(c), CornerZ(c), LosSquareRect(s))

Appended ==
    SubSeq(unsyncedHeightMapUpdates', Len(unsyncedHeightMapUpdates) + 1,
           Len(unsyncedHeightMapUpdates'))

\* an update whose written corner is in no observed LOS square queues no
\* rectangle over that corner
C5_HiddenWriteQueuesNothing ==
    lastOp'.op = "UpdateHeightMapSynced" =>
        \A c \in lastOp'.written : ~CornerObserved(c) => ~Covered(c, Appended)

\* UpdateDraw changes the unsynced grid only at corners of queued rectangles,
\* and brings the corners of the rectangles it drains to the synced height
C5_DrawCopiesQueuedOnly ==
    lastOp'.op = "UpdateDraw" =>
        \A c \in Corners :
            /\ ~Covered(c, unsyncedHeightMapUpdates) =>
                   heightMapUnsynced'[c] = heightMapUnsynced[c]
            /\ Covered(c, SubSeq(unsyncedHeightMapUpdates, 1,
                                 DrainCount(unsyncedHeightMapUpdates))) =>
                   heightMapUnsynced'[c] = heightMapSynced[c]

\* when a LOS square comes into view, every corner of it that differs between
\* the grids is covered by the queue, so that the next UpdateDraw copies it
C5_GainQueuesStale ==
    lastOp'.op = "GainLos" =>
        \A c \in Corners :
            (CornerInRect(CornerX(c), CornerZ(c), lastOp'.rect) /\
             heightMapUnsynced[c] # heightMapSynced[c]) =>
                Covered(c, unsyncedHeightMapUpdates')

\* C5 as stated: a region mutated while it is not observed is not propagated
\* by UpdateDraw, however often it is called, for as long as it stays
\* unobserved (the mutation queues nothing over it and UpdateDraw copies
\* queued rectangles only); once it comes into view, the next UpdateDraw
\* propagates it.
C5_HiddenUntilObserved ==
    [][C5_HiddenWriteQueuesNothing /\ C5_DrawCopiesQueuedOnly /\ C5_GainQueuesStale]_vars

\* C6 as stated: every call of UpdateHeightMapSynced after the one made by
\* Initialize, the whole map included, hands its rectangle to
\* HeightMapUpdateLOSCheck and leaves the unsynced normals as they are.
C6_LaterCallsAreLosChecked ==
    [][lastOp'.op = "UpdateHeightMapSynced" =>
          /\ trace'[Len(trace')].ev = "HeightMapUpdateLOSCheck"
          /\ faceNormalsUnsynced' = faceNormalsUnsynced
          /\ centerNormalsUnsynced' = centerNormalsUnsynced]_vars

(***************************************************************************)
(* Properties of UpdateHeightMapSynced and the derived buffers.            *)
(***************************************************************************)
SyncedCall == lastOp.op \in {"Initialize", "UpdateHeightMapSynced"}

\* the rectangle handed on by the call that led to this state
HandedOn == trace[Len(trace)].rect

\* r with a margin of one cell, cut to the corner grid / the square grid
ExpandedToCorners(r) ==
    Rect(Max(r.x1 - 1, 0), Max(r.z1 - 1, 0), Min(r.x2 + 1, mapx), Min(r.z2 + 1, mapy))
ExpandedToSquares(r) ==
    Rect(Max(r.x1 - 1, 0), Max(r.z1 - 1, 0), Min(r.x2 + 1, mapx - 1), Min(r.z2 + 1, mapy - 1))

\* C7 as stated: the rectangle handed on for unsynced propagation is the
\* rectangle the call was given.
C7_HandsOnOriginalRect ==
    SyncedCall => HandedOn = lastOp.rect

\* C7, amended: the rectangle handed on (pushed, or passed to
\* HeightMapUpdateLOSCheck) is the given one with a margin of one cell, cut to
\* [0, mapx] x [0, mapy]; the four derivations get the same margin, cut to
\* [0, mapx - 1] x [0, mapy - 1].
C7_HandsOnExpandedRect ==
    SyncedCall =>
        /\ Len(trace) = 5
        /\ HandedOn = ExpandedToCorners(lastOp.rect)
        /\ trace[5].ev \in {"push_back", "HeightMapUpdateLOSCheck"}
        /\ trace[5].ev = "push_back" =>
               unsyncedHeightMapUpdates[Len(unsyncedHeightMapUpdates)] =
                   ExpandedToCorners(lastOp.rect)
        /\ \A k \in 1..4 : trace[k].rect = ExpandedToSquares(lastOp.rect)

\* a call with {1,1,3,3} handed the whole map to the LOS check
C7_Witness ==
    /\ lastOp.op = "UpdateHeightMapSynced"
    /\ lastOp.rect = Rect(1, 1, 3, 3)
    /\ trace[5] = Event("HeightMapUpdateLOSCheck", WholeMapRect)
    /\ trace[1] = Event("UpdateCenterHeightmap", Rect(0, 0, 3, 3))

\* mip level l as stored; level 0 is the center height grid
MipLevel(l) == IF l = 0 THEN centerHeightMap ELSE mipCenterHeightMaps[l]

\* C8 as stated: every cell (x, y) of every level i + 1 holds the average of
\* the cells (2x, 2y), (2x+1, 2y), (2x, 2y+1), (2x+1, 2y+1) of level i.
C8_MipInvariant ==
    \A i \in 0..(numHeightMipMaps - 2) :
        \A k \in 0..(MipSize(i + 1) - 1) :
            LET w == Shr(mapx, i)
                x == k % Shr(mapx, i + 1)
                y == k \div Shr(mapx, i + 1)
            IN  4 * MipLevel(i + 1)[k] =
                    MipLevel(i)[(2 * x    ) + (2 * y    ) * w] +
                    MipLevel(i)[(2 * x + 1) + (2 * y    ) * w] +
                    MipLevel(i)[(2 * x    ) + (2 * y + 1) * w] +
                    MipLevel(i)[(2 * x + 1) + (2 * y + 1) * w]

\* square i has corner c as one of its four corners
AdjacentSquare(i, c) ==
    /\ CornerX(c) - SquareX(i) \in {0, 1}
    /\ CornerZ(c) - SquareZ(i) \in {0, 1}

\* the center grid of the example: 2.5 on the four squares around corner
\* (2, 2), 0 elsewhere
ExampleCenterHeights ==
    [i \in 0..(NumSquares - 1) |->
        IF i \in {SquareIdx(1, 1), SquareIdx(2, 1), SquareIdx(1, 2), SquareIdx(2, 2)}
        THEN Fixed(10) \div 4 ELSE 0]

\* the step is the example: on the flat map, corner (2, 2) is set to 10 and
\* UpdateHeightMapSynced({1,1,3,3}) runs
ExampleStep ==
    /\ heightMapSynced = FlatMap
    /\ lastOp'.rect = Rect(1, 1, 3, 3)
    /\ lastOp'.written = {CornerIdx(2, 2)}
    /\ heightMapSynced'[CornerIdx(2, 2)] = Fixed(10)

\* after a write followed by UpdateHeightMapSynced: every center height is
\* the mean of its four corners, only squares at a written corner changed,
\* and the example gives the example's grid
C9_CenterHeights ==
    /\ \A i \in 0..(NumSquares - 1) :
           4 * centerHeightMap'[i] =
               heightMapSynced'[CornerIdx(SquareX(i), SquareZ(i))] +
               heightMapSynced'[CornerIdx(SquareX(i) + 1, SquareZ(i))] +
               heightMapSynced'[CornerIdx(SquareX(i), SquareZ(i) + 1)] +
               heightMapSynced'[CornerIdx(SquareX(i) + 1, SquareZ(i) + 1)]
    /\ \A i \in 0..(NumSquares - 1) :
           centerHeightMap'[i] # centerHeightMap[i] =>
               \E c \in lastOp'.written : AdjacentSquare(i, c)
    /\ ExampleStep => centerHeightMap' = ExampleCenterHeights

WriteStep == lastOp'.op = "UpdateHeightMapSynced" /\ lastOp'.written # {}

C10_SecondCallChangesNothing ==
    [][(lastOp'.op = "UpdateHeightMapSynced" /\ lastOp'.again) =>
          /\ heightMapSynced' = heightMapSynced
          /\ derived' = derived]_vars

\* {1,1,3,3} was applied twice in a row on a terrain with slopes
C10_Witness ==
    /\ lastOp.op = "UpdateHeightMapSynced"
    /\ lastOp.again
    /\ lastOp.rect = Rect(1, 1, 3, 3)
    /\ heightMapSynced # FlatMap
    /\ \E k \in DOMAIN slopeMap : slopeMap[k] # 0

(***************************************************************************)
(* The synced side against visibility and draining; the order of the       *)
(* derivations.                                                            *)
(***************************************************************************)
\* the buffers s with everything the visibility and drain side owns replaced:
\* nothing observed, no spectator, an empty queue, cleared unsynced digests
\* and unsynced normals
Unobserved(s) ==
    [s EXCEPT !.los = AllInLos(FALSE),
              !.fullView = FALSE,
              !.q = <<>>,
              !.ud = [i \in 0..(NumDigests - 1) |-> 0],
              !.nrm.faceNormalsUnsynced = [f \in 0..(2 * NumSquares - 1) |-> ZeroVector],
              !.nrm.centerNormalsUnsynced = [i \in 0..(NumSquares - 1) |-> ZeroVector]]

\* the synced derived buffers of a result of UpdateHeightMapSynced
SyncedOutputs(r) ==
    <<r.chm, r.mips, r.nrm.faceNormalsSynced, r.nrm.centerNormalsSynced,
      r.nrm.centerNormals2D, r.slopes>>

\* C11: the synced corner grid and the synced derived buffers (center heights,
\* mips, synced normals, slope map) do not depend on visibility or draining:
\* UpdateDraw, LOS changes with UpdateLOS, and BecomeSpectator leave them as
\* they are, and an UpdateHeightMapSynced call leaves them as the same call
\* would in a run where nothing was ever observed, queued or drained.  Two
\* runs with the same writes and calls thus agree on them step by step, and
\* on CalcHeightmapChecksum, which reads the synced corner grid only.
C11_SyncedSideIgnoresVisibility ==
    [][/\ lastOp'.op # "UpdateHeightMapSynced" =>
              /\ heightMapSynced' = heightMapSynced
              /\ derived' = derived
       /\ lastOp'.op = "UpdateHeightMapSynced" =>
              \A u \in {Unobserved(Current(heightMapSynced'))} :
              \A r \in {UpdateHeightMapSyncedResult(u, lastOp'.rect)} :
                  SyncedOutputs(r) = derived']_vars

\* a write was applied while the local player was a full-view spectator with
\* a LOS square in view and rectangles still queued
C11_Witness ==
    /\ lastOp.op = "UpdateHeightMapSynced"
    /\ lastOp.written # {}
    /\ spectatingFullView
    /\ \E sq \in 0..(NumLosSquares - 1) : inLos[sq]
    /\ Len(unsyncedHeightMapUpdates) >= 2

\* the slope-map cells UpdateSlopemap rewrites for rect
SlopeCells(rect) ==
    {k \in 0..(hmapx * hmapy - 1) :
        /\ Max(0, TruncDiv(rect.x1, 2) - 1) <= k % hmapx
        /\ k % hmapx <= Min(hmapx - 1, TruncDiv(rect.x2, 2) + 1)
        /\ Max(0, TruncDiv(rect.z1, 2) - 1) <= k \div hmapx
        /\ k \div hmapx <= Min(hmapy - 1, TruncDiv(rect.z2, 2) + 1)}

\* the first position of the call named ev in the call sequence tr, 0 if none
FirstCall(tr, ev) ==
    IF \E j \in DOMAIN tr : tr[j].ev = ev
    THEN CHOOSE j \in DOMAIN tr : tr[j].ev = ev /\ \A o \in 1..(j - 1) : tr[o].ev # ev
    ELSE 0

\* C12: in one UpdateHeightMapSynced call the center heights are updated
\* before the mip levels and the face normals before the slope map; mip level
\* 1 holds the averages of the new center heights, the recomputed face normals
\* are those of the new corner heights, and every slope cell the call rewrites
\* holds the slope of the new face normals.
C12_DerivationsInDependencyOrder ==
    [][lastOp'.op = "UpdateHeightMapSynced" =>
          /\ 0 < FirstCall(trace', "UpdateCenterHeightmap")
          /\ FirstCall(trace', "UpdateCenterHeightmap") < FirstCall(trace', "UpdateMipHeightmaps")
          /\ 0 < FirstCall(trace', "UpdateFaceNormals")
          /\ FirstCall(trace', "UpdateFaceNormals") < FirstCall(trace', "UpdateSlopemap")
          /\ \A k \in 0..(MipSize(1) - 1) :
                 LET x == 2 * (k % hmapx)
                     y == 2 * (k \div hmapx)
                 IN  mipCenterHeightMaps'[1][k] =
                         TruncDiv(centerHeightMap'[x + y * mapx] +
                                  centerHeightMap'[x + (y + 1) * mapx] +
                                  centerHeightMap'[(x + 1) + y * mapx] +
                                  centerHeightMap'[(x + 1) + (y + 1) * mapx], 4)
          /\ \A i \in FaceNormalSquares(CenterRectOf(lastOp'.rect)) :
                 /\ faceNormalsSynced'[2 * i] = SquareFaceTL(heightMapSynced', i)
                 /\ faceNormalsSynced'[2 * i + 1] = SquareFaceBR(heightMapSynced', i)
          /\ \A k \in SlopeCells(CenterRectOf(lastOp'.rect)) :
                 slopeMap'[k] = SlopeOfCell(faceNormalsSynced', k % hmapx, k \div hmapx)]_vars

\* a write raised a corner of the flat map: face normals, slopes and mip
\* level 1 all left their flat values in the one call
C12_Witness ==
    /\ lastOp.op = "UpdateHeightMapSynced"
    /\ lastOp.written # {}
    /\ numSyncedUpdates = 1
    /\ \E c \in lastOp.written : heightMapSynced[c] = Fixed(10)
    /\ \E k \in SlopeCells(CenterRectOf(lastOp.rect)) : slopeMap[k] # 0
    /\ \E k \in 0..(MipSize(1) - 1) : mipCenterHeightMaps[1][k] # 0
    /\ \E f \in 0..(2 * NumSquares - 1) : faceNormalsSynced[f].y # NUnit(1)

\* every LOS square is observed by the local player
AllObserved == spectatingFullView \/ \A s \in 0..(NumLosSquares - 1) : inLos[s]

\* the rectangles the next UpdateDraw call drains
DrainedNext == SubSeq(unsyncedHeightMapUpdates, 1, DrainCount(unsyncedHeightMapUpdates))

\* C19: a drain copies the synced values as they are when it runs, whatever
\* was written since the rectangle was queued; hence with every region
\* observed and the queue drained to empty, the unsynced corner grid equals
\* the synced corner grid at every corner.
C19_DrainCatchesUp ==
    [][/\ lastOp'.op = "UpdateDraw" =>
              \A c \in Corners :
                  Covered(c, DrainedNext) => heightMapUnsynced'[c] = heightMapSynced[c]
       /\ (unsyncedHeightMapUpdates' = <<>> /\ AllObserved') =>
              heightMapUnsynced' = heightMapSynced']_vars

(***************************************************************************)
(* A long run of updates of a region nobody observes, then a look at it.   *)
(***************************************************************************)
\* corner (0, 0) is set to v, the height it has or another one, and
\* UpdateHeightMapSynced runs on it, while its LOS square is out of view
HiddenUpdate(v) ==
    LET hm == [heightMapSynced EXCEPT ![CornerIdx(0, 0)] = v]
    IN  /\ numSyncedUpdates < MaxHiddenUpdates
        /\ ~spectatingFullView
        /\ ~inLos[0]
        /\ heightMapSynced' = hm
        /\ heightMapUnsynced' = (IF useUnsynced THEN heightMapUnsynced ELSE hm)
        /\ ApplyUpdateHeightMapSynced(hm, Rect(0, 0, 0, 0))
        /\ lastOp' = [op |-> "UpdateHeightMapSynced", rect |-> Rect(0, 0, 0, 0),
                      written |-> {CornerIdx(0, 0)}, again |-> FALSE]
        /\ numSyncedUpdates' = numSyncedUpdates + 1
        /\ hmUpdated' = TRUE
        /\ mutatedAt' = syncFrame
        /\ UNCHANGED <<environment, drainLog, keepDrainLog, pendingAtStart,
                       numDrawCalls, numLosEvents, tracker, persistence, checksums>>

InitWrap ==
    /\ Initialized(FlatMap, [i \in 0..(NumCorners - 1) |-> 0], TRUE, TRUE,
                   AllInLos(FALSE), <<>>)
    /\ InitHeightBounds(FlatMap, FALSE, 4)
    /\ LoadTypeMap(NoTypes)
    /\ keepDrainLog = FALSE
    /\ drainLog = <<>>
    /\ pendingAtStart = unsyncedHeightMapUpdates

NextWrap ==
    \/ \E v \in HeightValues : HiddenUpdate(v)
    \/ BecomeSpectator
    \/ \E firstCall \in BOOLEAN : UpdateDraw(firstCall)

SpecWrap == InitWrap /\ [][NextWrap]_vars

(***************************************************************************)
(* The bounds tracker alone: height writes, one paced step per simulation  *)
(* frame, and full rescans.                                                *)
(***************************************************************************)
\* the corners written and the heights they get: below, inside and above the
\* range of the loaded map
TrackedCorners == {0, NumCorners - 1}
TrackedHeights == {Fixed(-5), Fixed(20)}

\* the write of one corner height (SetHeight), which flags the map as updated
SetHeight(c, v) ==
    /\ Budget
    /\ heightMapSynced' = [heightMapSynced EXCEPT ![c] = v]
    /\ heightMapUnsynced' = (IF useUnsynced THEN heightMapUnsynced ELSE heightMapSynced')
    /\ hmUpdated' = TRUE
    /\ mutatedAt' = syncFrame
    /\ numSyncedUpdates' = numSyncedUpdates + 1
    /\ lastOp' = [op |-> "SetHeight", rect |-> Rect(CornerIdx(0, 0), 0, 0, 0), written |-> {c},
                  again |-> FALSE]
    /\ trace' = <<>>
    /\ UNCHANGED <<derived, syncedHeightMapDigests, faceNormalsUnsynced, centerNormalsUnsynced,
                   unsyncedHeightMapUpdates, unsyncedHeightMapDigests, environment,
                   drainLog, keepDrainLog, pendingAtStart, numDrawCalls, numLosEvents,
                   tracker, persistence, checksums>>

\* the simulation frame syncFrame: UpdateHeightBounds(syncFrame)
SimFrame ==
    /\ syncFrame < MaxFrames
    /\ \E r \in {UpdateHeightBounds([curr |-> currHeightBounds, temp |-> tempHeightBounds,
                                     processing |-> processingHeightBounds,
                                     updated |-> hmUpdated],
                                    heightMapSynced, simdSize, syncFrame)} :
           /\ currHeightBounds' = r.curr
           /\ tempHeightBounds' = r.temp
           /\ processingHeightBounds' = r.processing
           /\ hmUpdated' = r.updated
           /\ lastScan' = r.scan
    /\ syncFrame' = syncFrame + 1
    /\ lastOp' = [op |-> "UpdateHeightBounds", rect |-> WholeMapRect, written |-> {},
                  again |-> FALSE]
    /\ trace' = <<>>
    /\ UNCHANGED <<syncedSide, unsyncedSide, environment, drainLog, keepDrainLog,
                   pendingAtStart, numDrawCalls, numSyncedUpdates, numLosEvents,
                   initHeightBounds, simdSize, mutatedAt, persistence, checksums>>

\* UpdateHeightBounds() called between two frames
FullRescan ==
    /\ \E r \in {UpdateHeightBoundsFull(heightMapSynced, simdSize)} :
           /\ currHeightBounds' = r.curr
           /\ tempHeightBounds' = r.temp
           /\ lastScan' = r.scan
    /\ lastOp' = [op |-> "UpdateHeightBoundsFull", rect |-> WholeMapRect, written |-> {},
                  again |-> FALSE]
    /\ trace' = <<>>
    /\ UNCHANGED <<syncedSide, unsyncedSide, environment, drainLog, keepDrainLog,
                   pendingAtStart, numDrawCalls, numSyncedUpdates, numLosEvents,
                   hmUpdated, processingHeightBounds, initHeightBounds, simdSize,
                   syncFrame, mutatedAt, persistence, checksums>>

InitBounds ==
    /\ Initialized(RidgeMap, [i \in 0..(NumCorners - 1) |-> 0], TRUE, TRUE,
                   AllInLos(FALSE), <<>>)
    /\ \E updated \in BOOLEAN : InitHeightBounds(RidgeMap, updated, 4)
    /\ LoadTypeMap(NoTypes)
    /\ keepDrainLog = FALSE
    /\ drainLog = <<>>
    /\ pendingAtStart = unsyncedHeightMapUpdates

NextBounds ==
    \/ \E c \in TrackedCorners : \E v \in TrackedHeights \ {heightMapSynced[c]} : SetHeight(c, v)
    \/ SimFrame
    \/ FullRescan

SpecBounds == InitBounds /\ [][NextBounds]_vars

(***************************************************************************)
(* Properties of the bounds tracker.                                       *)
(***************************************************************************)
\* the exact minimum and maximum of the corner grid hm
ExactBounds(hm) ==
    Bounds(CHOOSE m \in {hm[i] : i \in DOMAIN hm} : \A i \in DOMAIN hm : m <= hm[i],
           CHOOSE m \in {hm[i] : i \in DOMAIN hm} : \A i \in DOMAIN hm : m >= hm[i])

\* the step is the call of UpdateHeightBounds(syncFrame) at slice 0
SliceZeroStep ==
    /\ lastOp'.op = "UpdateHeightBounds"
    /\ syncFrame' = syncFrame + 1
    /\ syncFrame % PACING_PERIOD = 0

\* C13 as stated: if hmUpdated was not set during the pacing cycle that ends,
\* the call at slice 0 that ends it leaves currHeightBounds unchanged.
C13_QuietCycleKeepsCurrent ==
    [][(SliceZeroStep /\ syncFrame > 0 /\ ~hmUpdated) =>
          currHeightBounds' = currHeightBounds]_vars

\* C13, amended: the call at slice 0 leaves currHeightBounds unchanged if no
\* scan was running (processingHeightBounds false), and commits
\* tempHeightBounds if one was; a scan was running exactly if a height had
\* been written during the cycle before the one that ends, not during the
\* one that ends.
C13_UnflaggedCycleKeepsCurrent ==
    [][SliceZeroStep =>
          /\ ~processingHeightBounds => currHeightBounds' = currHeightBounds
          /\ processingHeightBounds => currHeightBounds' = tempHeightBounds
          /\ processingHeightBounds' = hmUpdated
          /\ (syncFrame >= 2 * PACING_PERIOD /\ mutatedAt <= syncFrame - 2 * PACING_PERIOD) =>
                 ~processingHeightBounds
          /\ (syncFrame >= 2 * PACING_PERIOD /\ mutatedAt > syncFrame - 2 * PACING_PERIOD
                 /\ mutatedAt <= syncFrame - PACING_PERIOD) =>
                 processingHeightBounds]_vars

\* a cycle in which a height was written ended without a commit: the bounds
\* readers see are still those of the load and no longer exact
C13_Witness ==
    /\ lastOp.op = "UpdateHeightBounds"
    /\ syncFrame = PACING_PERIOD + 1
    /\ mutatedAt >= 1
    /\ processingHeightBounds
    /\ ~hmUpdated
    /\ currHeightBounds = initHeightBounds
    /\ currHeightBounds # ExactBounds(heightMapSynced)

C15_FullAndPacedAgree ==
    [][/\ lastOp'.op = "UpdateHeightBoundsFull" =>
              /\ currHeightBounds' = ExactBounds(heightMapSynced)
              /\ tempHeightBounds' = currHeightBounds'
       /\ (SliceZeroStep /\ processingHeightBounds /\ ~hmUpdated) =>
              /\ \A i \in 0..(mapxp1 * mapyp1 - 1) :
                     Cardinality({k \in 0..(PACING_PERIOD - 1) :
                                      SliceBeg(k) <= i /\ i < SliceEnd(k)}) = 1
              /\ currHeightBounds' = ExactBounds(heightMapSynced)
              /\ currHeightBounds' = UpdateHeightBoundsFull(heightMapSynced, simdSize).curr]_vars

\* a paced cycle over a grid written before it started was committed: the
\* bounds are exact and differ from those of the load
C15_Witness ==
    /\ lastOp.op = "UpdateHeightBounds"
    /\ syncFrame = PACING_PERIOD + 1
    /\ mutatedAt = 0
    /\ ~processingHeightBounds
    /\ currHeightBounds = ExactBounds(heightMapSynced)
    /\ currHeightBounds # initHeightBounds

(***************************************************************************)
(* The SIMD scan alone: UpdateTempHeightBoundsSIMD applied to any range of *)
(* the corner grid, for the lane widths of the supported builds.           *)
(***************************************************************************)
\* SIMDVfloat::size: the scalar fallback, an odd width, SSE/NEON and AVX-512
SimdSizes == {1, 3, 4, 16}

\* where the scanned ranges start: the first corner, inside the first row
\* that holds the ridge, and past the middle of the grid
ScanStarts == {0, mapxp1, 3 * mapxp1 - 1}

ScanRange(idxBeg, idxEnd) ==
    /\ \E r \in {UpdateTempHeightBoundsSIMD(heightMapSynced, tempHeightBounds, simdSize,
                                            idxBeg, idxEnd)} :
           /\ tempHeightBounds' = r.bounds
           /\ lastScan' = [idxBeg |-> idxBeg, idxEnd |-> idxEnd, prior |-> tempHeightBounds,
                           reads |-> r.reads]
    /\ lastOp' = [op |-> "UpdateTempHeightBoundsSIMD", rect |-> WholeMapRect, written |-> {},
                  again |-> FALSE]
    /\ trace' = <<>>
    /\ UNCHANGED <<syncedSide, unsyncedSide, environment, drainLog, keepDrainLog,
                   pendingAtStart, numDrawCalls, numSyncedUpdates, numLosEvents,
                   hmUpdated, processingHeightBounds, initHeightBounds, currHeightBounds,
                   simdSize, syncFrame, mutatedAt, persistence, checksums>>

InitScan ==
    /\ Initialized(RidgeMap, [i \in 0..(NumCorners - 1) |-> 0], TRUE, TRUE,
                   AllInLos(FALSE), <<>>)
    /\ \E lanes \in SimdSizes : InitHeightBounds(RidgeMap, FALSE, lanes)
    /\ LoadTypeMap(NoTypes)
    /\ keepDrainLog = FALSE
    /\ drainLog = <<>>
    /\ pendingAtStart = unsyncedHeightMapUpdates

NextScan ==
    \/ \E v \in TrackedHeights \ {heightMapSynced[0]} : SetHeight(0, v)
    \/ \E idxBeg \in ScanStarts :
           \E idxEnd \in idxBeg..(mapxp1 * mapyp1) : ScanRange(idxBeg, idxEnd)

SpecScan == InitScan /\ [][NextScan]_vars

\* the heights at the indices idxBeg .. idxEnd-1 of the corner grid
HeightsIn(idxBeg, idxEnd) == {heightMapSynced[i] : i \in idxBeg..(idxEnd - 1)}

\* C16: UpdateTempHeightBoundsSIMD(idxBeg, idxEnd) leaves tempHeightBounds.x
\* the minimum of its prior value and the heights in [idxBeg, idxEnd), and
\* tempHeightBounds.y the maximum of its prior value and those heights,
\* whatever the lane width, the range (empty, shorter than a vector, not a
\* multiple of it) and the prior bounds; it reads the indices of the range
\* and no other.
C16_SimdScanIsScalarScan ==
    [][lastOp'.op = "UpdateTempHeightBoundsSIMD" =>
          \A H \in {HeightsIn(lastScan'.idxBeg, lastScan'.idxEnd)} :
              /\ tempHeightBounds'.x \in H \cup {tempHeightBounds.x}
              /\ \A h \in H \cup {tempHeightBounds.x} : tempHeightBounds'.x <= h
              /\ tempHeightBounds'.y \in H \cup {tempHeightBounds.y}
              /\ \A h \in H \cup {tempHeightBounds.y} : tempHeightBounds'.y >= h
              /\ lastScan'.reads = lastScan'.idxBeg..(lastScan'.idxEnd - 1)]_vars

\* a 4-lane build scanned a range with two full vectors and a tail, which
\* moved both bounds away from bounds an earlier scan had left
C16_Witness ==
    /\ lastOp.op = "UpdateTempHeightBoundsSIMD"
    /\ simdSize = 4
    /\ lastScan.idxEnd - lastScan.idxBeg = 11
    /\ lastScan.prior # ResetBounds
    /\ tempHeightBounds.x < lastScan.prior.x
    /\ tempHeightBounds.y > lastScan.prior.y

(***************************************************************************)
(* The checksum alone: corners are written, the checksum is recomputed.    *)
(***************************************************************************)
ChecksumCorners == {0, CornerIdx(2, 2), NumCorners - 1}
ChecksumHeights == HeightValues \cup TrackedHeights

\* CalcHeightmapChecksum is called and its return value kept
CalcChecksum ==
    /\ lastChecksum' = CalcHeightmapChecksum(heightMapSynced)
    /\ lastOp' = [op |-> "CalcHeightmapChecksum", rect |-> WholeMapRect, written |-> {},
                  again |-> FALSE]
    /\ trace' = <<>>
    /\ UNCHANGED <<syncedSide, unsyncedSide, environment, drainLog, keepDrainLog,
                   pendingAtStart, numDrawCalls, numSyncedUpdates, numLosEvents,
                   hmUpdated, mutatedAt, tracker, persistence, mapChecksum>>

InitChecksum ==
    /\ Initialized(RidgeMap, [i \in 0..(NumCorners - 1) |-> 0], TRUE, TRUE,
                   AllInLos(FALSE), <<>>)
    /\ InitHeightBounds(RidgeMap, FALSE, 4)
    /\ LoadTypeMap(NoTypes)
    /\ keepDrainLog = FALSE
    /\ drainLog = <<>>
    /\ pendingAtStart = unsyncedHeightMapUpdates

NextChecksum ==
    \/ \E c \in ChecksumCorners, v \in ChecksumHeights : SetHeight(c, v)
    \/ CalcChecksum

SpecChecksum == InitChecksum /\ [][NextChecksum]_vars

\* two calls in a row return the same value
ChecksumRepeats ==
    (lastOp.op = "CalcHeightmapChecksum" /\ lastOp'.op = "CalcHeightmapChecksum")
        => lastChecksum' = lastChecksum

SomeTypes == [k \in 0..(hmapx * hmapy - 1) |-> IF k = 1 THEN 255 ELSE k]
TypeValues == {0, 7}
TypeCells == {hmapx * hmapy - 1}

\* the state after load, of a map with the type info map types
InitPersist ==
    /\ Initialized(RidgeMap, [i \in 0..(NumCorners - 1) |-> 0], TRUE, TRUE,
                   AllInLos(FALSE), <<>>)
    /\ InitHeightBounds(RidgeMap, FALSE, 4)
    /\ \E types \in {SomeTypes, nullptr} : LoadTypeMap(types)
    /\ keepDrainLog = FALSE
    /\ drainLog = <<>>
    /\ pendingAtStart = unsyncedHeightMapUpdates

\* CReadMap::LoadOriginalHeightMapAndChecksum, called again before the match
\* starts
LoadOriginalHeightMapAndChecksum ==
    /\ originalHeightMap' = heightMapSynced
    /\ initHeightBounds' = InitialBoundsFrom(ResetBounds, heightMapSynced, 0)
    /\ tempHeightBounds' = ResetBounds
    /\ currHeightBounds' = initHeightBounds'
    /\ mapChecksum' = LoadChecksum(heightMapSynced)
    /\ lastOp' = [op |-> "LoadOriginalHeightMapAndChecksum", rect |-> WholeMapRect,
                  written |-> {}, again |-> FALSE]
    /\ trace' = <<>>
    /\ UNCHANGED <<syncedSide, unsyncedSide, environment, drainLog, keepDrainLog,
                   pendingAtStart, numDrawCalls, numSyncedUpdates, numLosEvents,
                   hmUpdated, mutatedAt, processingHeightBounds, simdSize, syncFrame,
                   lastScan, mapFileHeightMap, typeMap, typeInfoMap, saved, savedFrom,
                   lastChecksum>>

\* a synced write of the terrain type of one cell
SetTerrainType(k, t) ==
    /\ typeMap' = [typeMap EXCEPT ![k] = t]
    /\ lastOp' = [op |-> "SetTerrainType", rect |-> WholeMapRect, written |-> {},
                  again |-> FALSE]
    /\ trace' = <<>>
    /\ UNCHANGED <<syncedSide, unsyncedSide, environment, drainLog, keepDrainLog,
                   pendingAtStart, numDrawCalls, numSyncedUpdates, numLosEvents,
                   hmUpdated, mutatedAt, tracker, mapFileHeightMap, originalHeightMap,
                   typeInfoMap, saved, savedFrom, checksums>>

\* Serialize with a writing serializer
Save ==
    /\ saved' = SerializeWrite(mapFileHeightMap, originalHeightMap, heightMapSynced,
                               typeMap, typeInfoMap)
    /\ savedFrom' = [original |-> originalHeightMap, current |-> heightMapSynced,
                     types |-> typeMap]
    /\ lastOp' = [op |-> "Serialize", rect |-> WholeMapRect, written |-> {},
                  again |-> FALSE]
    /\ trace' = <<>>
    /\ UNCHANGED <<syncedSide, unsyncedSide, environment, drainLog, keepDrainLog,
                   pendingAtStart, numDrawCalls, numSyncedUpdates, numLosEvents,
                   hmUpdated, mutatedAt, tracker, mapFileHeightMap, originalHeightMap,
                   typeMap, typeInfoMap, checksums>>

\* Serialize with a reading serializer, into an instance with the same map
\* file height map and type info map, whatever its other maps hold
Load ==
    /\ saved # <<>>
    /\ \E r \in {SerializeRead(saved, mapFileHeightMap, originalHeightMap, typeMap,
                               typeInfoMap)} :
           /\ originalHeightMap' = r.original
           /\ heightMapSynced' = r.current
           /\ typeMap' = r.types
           /\ trace' = r.order
    /\ heightMapUnsynced' = (IF useUnsynced THEN heightMapUnsynced ELSE heightMapSynced')
    /\ lastOp' = [op |-> "SerializeRead", rect |-> WholeMapRect, written |-> {},
                  again |-> FALSE]
    /\ UNCHANGED <<derived, syncedHeightMapDigests, faceNormalsUnsynced, centerNormalsUnsynced,
                   unsyncedHeightMapUpdates, unsyncedHeightMapDigests, environment,
                   drainLog, keepDrainLog, pendingAtStart, numDrawCalls, numSyncedUpdates,
                   numLosEvents, hmUpdated, mutatedAt, tracker, mapFileHeightMap,
                   typeInfoMap, saved, savedFrom, checksums>>

NextPersist ==
    \/ \E c \in TrackedCorners, v \in TrackedHeights : SetHeight(c, v)
    \/ \E k \in TypeCells, t \in TypeValues : SetTerrainType(k, t)
    \/ LoadOriginalHeightMapAndChecksum
    \/ Save
    \/ Load

SpecPersist == InitPersist /\ [][NextPersist]_vars

\* the words of the stream that hold the current grid
SavedDuring == SubSeq(saved, NumCorners + 1, 2 * NumCorners)

BacklogRect(j) ==
    LET x == j % mapxp1
        z == (j \div mapxp1) % mapyp1
        w == (j \div NumCorners) % 2
    IN  Rect(x, z, Min(x + w, mapx), Min(z + w, mapy))

\* a backlog of n rectangles, in either order of arrival
Backlog(n, reversed) ==
    [i \in 1..n |-> BacklogRect(IF reversed THEN n - i ELSE i - 1)]

\* the shortest backlog drawn: one and a half frames' worth
MinPending == MAX_UHM_RECTS_PER_FRAME + MAX_UHM_RECTS_PER_FRAME \div 2

InitDrain ==
    /\ \E n \in MinPending..MaxPending, reversed \in BOOLEAN :
           Initialized(RidgeMap, [i \in 0..(NumCorners - 1) |-> 0], TRUE, TRUE,
                       AllInLos(TRUE), Backlog(n, reversed))
    /\ InitHeightBounds(RidgeMap, FALSE, 4)
    /\ LoadTypeMap(NoTypes)
    /\ keepDrainLog = TRUE
    /\ drainLog = <<>>
    /\ pendingAtStart = unsyncedHeightMapUpdates

NextDrain == \E firstCall \in BOOLEAN : UpdateDraw(firstCall)

SpecDrain == InitDrain /\ [][NextDrain]_vars

(***************************************************************************)
(* Properties of the drain.                                                *)
(***************************************************************************)
\* the positions of the calls named ev in the call sequence tr, ascending
RECURSIVE PositionsIn(_, _, _, _)
PositionsIn(tr, ev, lo, hi) ==
    IF lo > hi THEN <<>>
    ELSE IF lo = hi THEN (IF tr[lo].ev = ev THEN <<lo>> ELSE <<>>)
    ELSE LET mid == (lo + hi) \div 2
         IN  PositionsIn(tr, ev, lo, mid) \o PositionsIn(tr, ev, mid + 1, hi)

PositionsOf(tr, ev) == PositionsIn(tr, ev, 1, Len(tr))

\* the rectangles of the calls named ev in tr, in call order
RectsOf(tr, ev) ==
    Only({ Stored([k \in 1..Len(at) |-> tr[at[k]].rect]) : at \in {PositionsOf(tr, ev)} })

CeilDiv(a, b) == (a + b - 1) \div b

\* C1: a call of UpdateDraw passes min(128, length) rectangles, never more
\* than 128, to UpdateHeightMapUnsynced; they are the front of the queue, in
\* queue order; exactly those are popped; what follows them stays queued in
\* its order.
C1_DrainStep ==
    lastOp'.op = "UpdateDraw" =>
        \A q \in {unsyncedHeightMapUpdates},
           copied \in {RectsOf(trace', "UpdateHeightMapUnsynced")},
           popped \in {RectsOf(trace', "pop_front")} :
            /\ Len(copied) <= MAX_UHM_RECTS_PER_FRAME
            /\ Len(copied) = Min(MAX_UHM_RECTS_PER_FRAME, Len(q))
            /\ copied = SubSeq(q, 1, Len(copied))
            /\ popped = copied
            /\ unsyncedHeightMapUpdates' = SubSeq(q, Len(copied) + 1, Len(q))

C3_NotifyStep ==
    lastOp'.op = "UpdateDraw" =>
        \A q \in {unsyncedHeightMapUpdates},
           n \in {Len(unsyncedHeightMapUpdates) - Len(unsyncedHeightMapUpdates')},
           copies \in {PositionsOf(trace', "UpdateHeightMapUnsynced")},
           notes \in {PositionsOf(trace', "UnsyncedHeightMapUpdate")},
           pops \in {PositionsOf(trace', "pop_front")} :
            /\ Len(notes) = n /\ Len(copies) = n /\ Len(pops) = n
            /\ \A k \in 1..n :
                   /\ trace'[notes[k]].rect = q[k]
                   /\ trace'[copies[k]].rect = q[k]
                   /\ trace'[pops[k]].rect = q[k]
                   /\ copies[k] < notes[k]
                   /\ notes[k] < pops[k]
            /\ (q = <<>> => notes = <<>>)

C3_NotifyOncePerDrainedRect == [][C3_NotifyStep]_vars

\* a second call that drained the remainder, below the cap, with its
\* notifications
C3_Witness ==
    /\ lastOp.op = "UpdateDraw"
    /\ numDrawCalls = 2
    /\ unsyncedHeightMapUpdates = <<>>
    /\ Len(PositionsOf(trace, "UnsyncedHeightMapUpdate")) \in 2..(MAX_UHM_RECTS_PER_FRAME - 1)

(***************************************************************************)
(* The build without USE_UNSYNCED_HEIGHTMAP: no visibility subsystem, the  *)
(* unsynced corner grid is the synced one.                                 *)
(***************************************************************************)
InitFallback ==
    /\ \E hm \in InitialHeightMaps, los \in {AllInLos(FALSE), AllInLos(TRUE)} :
           /\ Initialized(hm, hm, FALSE, FALSE, los, <<>>)
           /\ InitHeightBounds(hm, FALSE, 4)
    /\ LoadTypeMap(NoTypes)
    /\ keepDrainLog = FALSE
    /\ drainLog = <<>>
    /\ pendingAtStart = unsyncedHeightMapUpdates

NextFallback ==
    \/ \E r \in WriteRects, v \in HeightValues : Mutate(r, WrittenCorner(r), v)
    \/ \E r \in WriteRects : Reapply(r)
    \/ \E firstCall \in BOOLEAN : UpdateDraw(firstCall)

SpecFallback == InitFallback /\ [][NextFallback]_vars

CenterHeightTask(hm, chm, rect, y) ==
    Stored([i \in DOMAIN chm |->
        IF \E x \in rect.x1..rect.x2 : i = y * mapx + x
        THEN LET x == CHOOSE x \in rect.x1..rect.x2 : i = y * mapx + x
                 idxTL == (y + 0) * mapxp1 + x + 0
                 idxTR == (y + 0) * mapxp1 + x + 1
                 idxBL == (y + 1) * mapxp1 + x + 0
                 idxBR == (y + 1) * mapxp1 + x + 1
             IN  TruncDiv(hm[idxTL] + hm[idxTR] + hm[idxBL] + hm[idxBR], 4)
        ELSE chm[i]])

\* the cells the row task y of UpdateCenterHeightmap writes and reads
CenterHeightWrites(rect, y) == {<<"centerHeightMap", y * mapx + x>> : x \in rect.x1..rect.x2}
CenterHeightReads(rect, y) ==
    UNION {{<<"heightMapSynced", (y + 0) * mapxp1 + x + 0>>,
            <<"heightMapSynced", (y + 0) * mapxp1 + x + 1>>,
            <<"heightMapSynced", (y + 1) * mapxp1 + x + 0>>,
            <<"heightMapSynced", (y + 1) * mapxp1 + x + 1>>} : x \in rect.x1..rect.x2}

\* the columns of the loop of UpdateFaceNormals
FaceNormalColumns(rect) == Max(0, rect.x1 - 1)..Min(mapxm1, rect.x2 + 1)
\* its rows
FaceNormalRows(rect) == Max(0, rect.z1 - 1)..Min(mapym1, rect.z2 + 1)

\* the row task of UpdateFaceNormals for row y: the normal buffers after it
FaceNormalsTask(hm, n, rect, y, initialize, unsyncedBuild) ==
    LET copy == unsyncedBuild /\ initialize
        Mine(i) == \E x \in FaceNormalColumns(rect) : i = y * mapx + x
    IN  Only({
          Only({
            [faceNormalsSynced |-> fs,
             centerNormalsSynced |-> cs,
             centerNormals2D |->
                 Stored([i \in 0..(NumSquares - 1) |->
                     IF Mine(i) THEN CenterNormalsOf[SquareCorners(hm, i)].c2
                     ELSE n.centerNormals2D[i]]),
             faceNormalsUnsynced |->
                 Stored([f \in 0..(2 * NumSquares - 1) |->
                     IF copy /\ Mine(f \div 2) THEN fs[f] ELSE n.faceNormalsUnsynced[f]]),
             centerNormalsUnsynced |->
                 Stored([i \in 0..(NumSquares - 1) |->
                     IF copy /\ Mine(i) THEN cs[i] ELSE n.centerNormalsUnsynced[i]])] :
            cs \in {Stored([i \in 0..(NumSquares - 1) |->
                       IF Mine(i) THEN CenterNormalsOf[SquareCorners(hm, i)].c
                       ELSE n.centerNormalsSynced[i]])} }) :
          fs \in {Stored([f \in 0..(2 * NumSquares - 1) |->
                     IF Mine(f \div 2)
                     THEN IF f % 2 = 0 THEN SquareFaceTL(hm, f \div 2)
                                       ELSE SquareFaceBR(hm, f \div 2)
                     ELSE n.faceNormalsSynced[f]])} })

\* the cells the row task y of UpdateFaceNormals writes and reads
FaceNormalsWrites(rect, y, initialize, unsyncedBuild) ==
    UNION {{<<"faceNormalsSynced", (y * mapx + x) * 2>>,
            <<"faceNormalsSynced", (y * mapx + x) * 2 + 1>>,
            <<"centerNormalsSynced", y * mapx + x>>,
            <<"centerNormals2D", y * mapx + x>>} \cup
           (IF unsyncedBuild /\ initialize
            THEN {<<"faceNormalsUnsynced", (y * mapx + x) * 2>>,
                  <<"faceNormalsUnsynced", (y * mapx + x) * 2 + 1>>,
                  <<"centerNormalsUnsynced", y * mapx + x>>}
            ELSE {}) : x \in FaceNormalColumns(rect)}
FaceNormalsReads(rect, y, initialize, unsyncedBuild) ==
    UNION {{<<"heightMapSynced", y * mapxp1 + x>>,
            <<"heightMapSynced", y * mapxp1 + x + 1>>,
            <<"heightMapSynced", (y + 1) * mapxp1 + x>>,
            <<"heightMapSynced", (y + 1) * mapxp1 + x + 1>>} \cup
           (IF unsyncedBuild /\ initialize
            THEN {<<"faceNormalsSynced", (y * mapx + x) * 2>>,
                  <<"faceNormalsSynced", (y * mapx + x) * 2 + 1>>,
                  <<"centerNormalsSynced", y * mapx + x>>}
            ELSE {}) : x \in FaceNormalColumns(rect)}

\* the columns and rows of the loop of UpdateSlopemap
SlopeColumns(rect) == Max(0, TruncDiv(rect.x1, 2) - 1)..Min(hmapx - 1, TruncDiv(rect.x2, 2) + 1)
SlopeRows(rect) == Max(0, TruncDiv(rect.z1, 2) - 1)..Min(hmapy - 1, TruncDiv(rect.z2, 2) + 1)

\* the row task of UpdateSlopemap for row y: the slope map after it
SlopeTask(fns, sm, rect, y) ==
    Stored([k \in DOMAIN sm |->
        IF \E x \in SlopeColumns(rect) : k = y * hmapx + x
        THEN SlopeOfCell(fns, CHOOSE x \in SlopeColumns(rect) : k = y * hmapx + x, y)
        ELSE sm[k]])

\* a row task of UpdateSlopemap that writes the cell below its own as well
SlopeWritesTwoRows(rect, y) ==
    {<<"slopeMap", y * hmapx + x>> : x \in SlopeColumns(rect)} \cup
    {<<"slopeMap", (y + 1) * hmapx + x>> : x \in SlopeColumns(rect)}

\* the cells the row task y of UpdateSlopemap writes and reads
SlopeWrites(rect, y) == {<<"slopeMap", y * hmapx + x>> : x \in SlopeColumns(rect)}
SlopeReads(rect, y) ==
    UNION {{<<"faceNormalsSynced", (((y * 2 + dy) * mapx + x * 2) + dx) * 2 + f>> :
                dy \in 0..1, dx \in 0..1, f \in 0..1} : x \in SlopeColumns(rect)}

\* the orders in which the rows of the map can be taken
RowOrders == {p \in [1..mapy -> 0..mapym1] : \A a, b \in 1..mapy : a # b => p[a] # p[b]}

\* the rows lo..hi in the order they have in p
RowsIn(p, lo, hi) == SelectSeq(p, LAMBDA y : lo <= y /\ y <= hi)

\* the row tasks of UpdateCenterHeightmap run one after the other, in the
\* order rows
RECURSIVE RunCenterHeightTasks(_, _, _, _, _)
RunCenterHeightTasks(hm, chm, rect, rows, k) ==
    IF k > Len(rows) THEN chm
    ELSE Only({ RunCenterHeightTasks(hm, next, rect, rows, k + 1) :
                    next \in {CenterHeightTask(hm, chm, rect, rows[k])} })

RECURSIVE RunFaceNormalsTasks(_, _, _, _, _, _, _)
RunFaceNormalsTasks(hm, n, rect, rows, k, initialize, unsyncedBuild) ==
    IF k > Len(rows) THEN n
    ELSE Only({ RunFaceNormalsTasks(hm, next, rect, rows, k + 1, initialize, unsyncedBuild) :
                    next \in {FaceNormalsTask(hm, n, rect, rows[k], initialize,
                                              unsyncedBuild)} })

RECURSIVE RunSlopeTasks(_, _, _, _, _)
RunSlopeTasks(fns, sm, rect, rows, k) ==
    IF k > Len(rows) THEN sm
    ELSE Only({ RunSlopeTasks(fns, next, rect, rows, k + 1) :
                    next \in {SlopeTask(fns, sm, rect, rows[k])} })

\* the derivations of UpdateHeightMapSynced(hgtMapRect) on the state s, with
\* the rows of every parallel phase taken in the order p
DerivedRowwise(s, hgtMapRect, p) ==
    LET initialize == (hgtMapRect = WholeMapRect)
        centerRect == CenterRectOf(hgtMapRect)
    IN  Only({ Only({ Only({ Only({
            [chm |-> chm, mips |-> mips, nrm |-> nrm, slopes |-> slopes] :
                slopes \in {RunSlopeTasks(nrm.faceNormalsSynced, s.slopes, centerRect,
                                RowsIn(p, Max(0, TruncDiv(centerRect.z1, 2) - 1),
                                          Min(hmapy - 1, TruncDiv(centerRect.z2, 2) + 1)), 1)} }) :
                nrm \in {RunFaceNormalsTasks(s.hm, s.nrm, centerRect,
                                RowsIn(p, Max(0, centerRect.z1 - 1),
                                          Min(mapym1, centerRect.z2 + 1)), 1,
                                initialize, s.useUnsynced)} }) :
                mips \in {UpdateMipHeightmaps(chm, s.mips, centerRect)} }) :
                chm \in {RunCenterHeightTasks(s.hm, s.chm, centerRect,
                                RowsIn(p, centerRect.z1, centerRect.z2), 1)} })

\* a synced mutation whose UpdateHeightMapSynced runs the rows of its
\* parallel phases in the order p
MutateRowwise(r, c, v, p) ==
    LET hm == [heightMapSynced EXCEPT ![c] = v]
    IN  /\ Budget
        /\ v # heightMapSynced[c]
        /\ heightMapSynced' = hm
        /\ heightMapUnsynced' = (IF useUnsynced THEN heightMapUnsynced ELSE hm)
        /\ \E d \in {DerivedRowwise(Current(hm), r, p)} :
           \E u \in {Only({UpdateHeightMapSyncedResult(s, r) : s \in {Current(hm)}})} :
               /\ centerHeightMap' = d.chm
               /\ mipCenterHeightMaps' = d.mips
               /\ faceNormalsSynced' = d.nrm.faceNormalsSynced
               /\ centerNormalsSynced' = d.nrm.centerNormalsSynced
               /\ centerNormals2D' = d.nrm.centerNormals2D
               /\ faceNormalsUnsynced' = d.nrm.faceNormalsUnsynced
               /\ centerNormalsUnsynced' = d.nrm.centerNormalsUnsynced
               /\ slopeMap' = d.slopes
               /\ syncedHeightMapDigests' = u.sd
               /\ unsyncedHeightMapDigests' = u.ud
               /\ unsyncedHeightMapUpdates' = u.q
               /\ trace' = u.trace
        /\ lastOp' = [op |-> "UpdateHeightMapSynced", rect |-> r, written |-> {c},
                      again |-> FALSE]
        /\ numSyncedUpdates' = numSyncedUpdates + 1
        /\ hmUpdated' = TRUE
        /\ mutatedAt' = syncFrame
        /\ UNCHANGED <<environment, drainLog, keepDrainLog, pendingAtStart,
                       numDrawCalls, numLosEvents, tracker, persistence, checksums>>

\* the state after Initialize, whose UpdateHeightMapSynced ran the rows of its
\* parallel phases in some order
InitRows ==
    /\ \E hm \in InitialHeightMaps, p \in RowOrders :
           /\ Initialized(hm, [i \in 0..(NumCorners - 1) |-> 0], TRUE, TRUE,
                          AllInLos(FALSE), <<>>)
           /\ InitHeightBounds(hm, FALSE, 4)
           /\ \E d \in {DerivedRowwise(Resized(hm, TRUE, TRUE), WholeMapRect, p)} :
                  /\ centerHeightMap = d.chm
                  /\ slopeMap = d.slopes
                  /\ faceNormalsSynced = d.nrm.faceNormalsSynced
                  /\ faceNormalsUnsynced = d.nrm.faceNormalsUnsynced
    /\ LoadTypeMap(NoTypes)
    /\ keepDrainLog = FALSE
    /\ drainLog = <<>>
    /\ pendingAtStart = unsyncedHeightMapUpdates

NextRows ==
    \/ \E r \in WriteRects, v \in HeightValues, p \in RowOrders :
           MutateRowwise(r, WrittenCorner(r), v, p)
    \/ \E firstCall \in BOOLEAN : UpdateDraw(firstCall)

SpecRows == InitRows /\ [][NextRows]_vars

\* no two row tasks of a phase write the same cell, and none reads a cell
\* another one writes
RowsIndependent(rows, Writes(_), Reads(_)) ==
    \A y1, y2 \in rows :
        y1 # y2 => /\ Writes(y1) \cap Writes(y2) = {}
                   /\ Reads(y1) \cap Writes(y2) = {}

\* C21: within each parallel phase of UpdateHeightMapSynced the row tasks
\* write pairwise disjoint cells and none reads a cell another task of the
\* phase writes, and the buffers after the call are those of the rows run
\* one after the other in loop order, whatever order the tasks ran in.
C21_RowTasksIndependent ==
    [][lastOp'.op = "UpdateHeightMapSynced" =>
          \A rect \in {CenterRectOf(lastOp'.rect)} :
          \A initialize \in {lastOp'.rect = WholeMapRect} :
              /\ RowsIndependent(rect.z1..rect.z2,
                                 LAMBDA y : CenterHeightWrites(rect, y),
                                 LAMBDA y : CenterHeightReads(rect, y))
              /\ RowsIndependent(FaceNormalRows(rect),
                                 LAMBDA y : FaceNormalsWrites(rect, y, initialize, useUnsynced),
                                 LAMBDA y : FaceNormalsReads(rect, y, initialize, useUnsynced))
              /\ RowsIndependent(SlopeRows(rect),
                                 LAMBDA y : SlopeWrites(rect, y),
                                 LAMBDA y : SlopeReads(rect, y))
              /\ \A u \in {UpdateHeightMapSyncedResult(Current(heightMapSynced'),
                                                       lastOp'.rect)} :
                     /\ SyncedOutputs(u) = derived'
                     /\ faceNormalsUnsynced' = u.nrm.faceNormalsUnsynced
                     /\ centerNormalsUnsynced' = u.nrm.centerNormalsUnsynced]_vars

\* a call on a rectangle that gives every phase several rows has run
C21_Witness ==
    /\ lastOp.op = "UpdateHeightMapSynced"
    /\ lastOp.rect = Rect(1, 1, 3, 3)
    /\ Cardinality(SlopeRows(CenterRectOf(lastOp.rect))) >= 2
    /\ Cardinality(FaceNormalRows(CenterRectOf(lastOp.rect))) >= 3
    /\ numSyncedUpdates = MaxSyncedUpdates

(***************************************************************************)
(* UpdateSlopemap alone: the face normals over one slope-map cell are      *)
(* drawn from the unit normals UpdateFaceNormals can store, the others are *)
(* those of flat terrain.                                                  *)
(***************************************************************************)
\* vertical components of a unit normal: close to 0 (a near-vertical face),
\* one half, and 1 (a flat face)
NormalYs == {1, NUnit(1) \div 2, NUnit(1)}

\* a unit normal with vertical component y
UnitNormal(y) == Vec(ISqrt(NUnit(1) * NUnit(1) - y * y), y, 0)

\* the eight face normals UpdateSlopemap reads for the slope-map cell (x, y)
SlopeCellFaces(x, y) ==
    {(((y * 2 + dy) * mapx + x * 2) + dx) * 2 + f : dy \in 0..1, dx \in 0..1, f \in 0..1}

InitSlope ==
    /\ \E r \in {Only({UpdateHeightMapSyncedResult(s, WholeMapRect) :
                           s \in {Resized(FlatMap, TRUE, TRUE)}})} :
           /\ useUnsynced = TRUE
           /\ useDigests = TRUE
           /\ heightMapSynced = FlatMap
           /\ heightMapUnsynced = [i \in 0..(NumCorners - 1) |-> 0]
           /\ centerHeightMap = r.chm
           /\ mipCenterHeightMaps = r.mips
           /\ \E ys \in [SlopeCellFaces(0, 0) -> NormalYs] :
                  faceNormalsSynced =
                      [f \in 0..(2 * NumSquares - 1) |->
                          IF f \in SlopeCellFaces(0, 0) THEN UnitNormal(ys[f])
                          ELSE UnitNormal(NUnit(1))]
           /\ centerNormalsSynced = r.nrm.centerNormalsSynced
           /\ centerNormals2D = r.nrm.centerNormals2D
           /\ faceNormalsUnsynced = r.nrm.faceNormalsUnsynced
           /\ centerNormalsUnsynced = r.nrm.centerNormalsUnsynced
           /\ slopeMap = [k \in 0..(hmapx * hmapy - 1) |-> 0]
           /\ syncedHeightMapDigests = r.sd
           /\ unsyncedHeightMapDigests = r.ud
           /\ unsyncedHeightMapUpdates = r.q
           /\ trace = r.trace
    /\ inLos = AllInLos(FALSE)
    /\ spectatingFullView = FALSE
    /\ lastOp = [op |-> "UpdateFaceNormals", rect |-> WholeMapRect, written |-> {},
                 again |-> FALSE]
    /\ numSyncedUpdates = 0
    /\ numLosEvents = 0
    /\ numDrawCalls = 0
    /\ InitHeightBounds(FlatMap, FALSE, 4)
    /\ LoadTypeMap(NoTypes)
    /\ keepDrainLog = FALSE
    /\ drainLog = <<>>
    /\ pendingAtStart = unsyncedHeightMapUpdates

\* CReadMap::UpdateSlopemap(rect) on the face normals of the state
UpdateSlopemapStep(rect) ==
    /\ lastOp.op = "UpdateFaceNormals"
    /\ slopeMap' = UpdateSlopemap(faceNormalsSynced, slopeMap, rect)
    /\ lastOp' = [op |-> "UpdateSlopemap", rect |-> rect, written |-> {}, again |-> FALSE]
    /\ UNCHANGED <<heightMapSynced, heightMapUnsynced,
                   centerHeightMap, mipCenterHeightMaps, faceNormalsSynced,
                   faceNormalsUnsynced, centerNormalsSynced, centerNormalsUnsynced,
                   centerNormals2D, unsyncedHeightMapUpdates, syncedHeightMapDigests,
                   unsyncedHeightMapDigests, environment, trace, drainLog, keepDrainLog,
                   pendingAtStart, numDrawCalls, numSyncedUpdates, numLosEvents,
                   hmUpdated, mutatedAt, tracker, persistence, checksums>>

NextSlope == \E rect \in {CenterRectOf(WholeMapRect)} : UpdateSlopemapStep(rect)

SpecSlope == InitSlope /\ [][NextSlope]_vars

\* C22: every value UpdateSlopemap writes to slopeMap lies in [0, 1], for
\* face normals with vertical component in (0, 1]: a flat cell (all eight
\* at 1) and a cell with a near-vertical face (minimum close to 0) included.
C22_SlopeInUnitInterval ==
    lastOp.op = "UpdateSlopemap" =>
        \A k \in 0..(hmapx * hmapy - 1) : 0 <= slopeMap[k] /\ slopeMap[k] <= NUnit(1)

\* UpdateSlopemap has run on a cell with a near-vertical face next to a flat
\* cell
C22_Witness ==
    /\ lastOp.op = "UpdateSlopemap"
    /\ \E f \in SlopeCellFaces(0, 0) : faceNormalsSynced[f].y = 1
    /\ \E f \in SlopeCellFaces(0, 0) : faceNormalsSynced[f].y = NUnit(1)
    /\ \A f \in SlopeCellFaces(1, 0) : faceNormalsSynced[f].y = NUnit(1)
    /\ slopeMap[0] > 0
    /\ slopeMap[1] = 0

(***************************************************************************)
(* CReadMap::LoadMap: after the map reader is constructed, the "type" info *)
(* map is asked for and copied into typeMap.                               *)
(***************************************************************************)
\* what GetInfoMap("type", &tbi) can hand back: no map, a map of the size of
\* the type map, a map of one cell, and a map with as many cells as the type
\* map but in one row
BitmapInfo(w, h) == [width |-> w, height |-> h]
InfoMap(ptr, tbi) == [ptr |-> ptr, tbi |-> tbi]
WideTypes == [k \in 0..(hmapx * hmapy - 1) |-> k + 1]
TypeInfoMaps ==
    {InfoMap(nullptr, BitmapInfo(0, 0)),
     InfoMap(SomeTypes, BitmapInfo(hmapx, hmapy)),
     InfoMap([k \in 0..0 |-> 7], BitmapInfo(1, 1)),
     InfoMap(WideTypes, BitmapInfo(hmapx * hmapy, 1))}

\* a copy made whenever there is an info map, whatever its dimensions
LoadedTypeMapAnyDims(types, typemapPtr, tbi) ==
    IF typemapPtr # nullptr
    THEN [types |-> [k \in DOMAIN types |->
                        IF k \in DOMAIN typemapPtr THEN typemapPtr[k] ELSE types[k]],
          warned |-> FALSE]
    ELSE [types |-> types, warned |-> TRUE]

\* the type map LoadMap leaves, and whether it logged the warning
LoadedTypeMap(types, typemapPtr, tbi) ==
    IF typemapPtr # nullptr /\ tbi.width = hmapx /\ tbi.height = hmapy
    THEN [types |-> [k \in DOMAIN types |-> typemapPtr[k]], warned |-> FALSE]
    ELSE [types |-> types, warned |-> TRUE]

\* the state after the constructor of the map reader: Initialize has run,
\* the type map holds terrain type 0 everywhere
InitLoadMap ==
    /\ \E hm \in InitialHeightMaps :
           /\ Initialized(hm, [i \in 0..(NumCorners - 1) |-> 0], TRUE, TRUE,
                          AllInLos(FALSE), <<>>)
           /\ InitHeightBounds(hm, FALSE, 4)
    /\ typeInfoMap = nullptr
    /\ typeMap = NoTypes
    /\ saved = <<>>
    /\ savedFrom = <<>>
    /\ keepDrainLog = FALSE
    /\ drainLog = <<>>
    /\ pendingAtStart = unsyncedHeightMapUpdates

\* the rest of LoadMap, with the info map the reader hands back
LoadMap(info) ==
    /\ lastOp.op = "Initialize"
    /\ \E l \in {LoadedTypeMap(typeMap, info.ptr, info.tbi)} :
           /\ typeMap' = l.types
           /\ trace' = (IF l.warned
                        THEN <<Event("LOG_L(L_WARNING)",
                                     Rect(0, 0, info.tbi.width, info.tbi.height))>>
                        ELSE <<>>)
    /\ typeInfoMap' = info.ptr
    /\ lastOp' = [op |-> "LoadMap", rect |-> Rect(0, 0, info.tbi.width, info.tbi.height),
                  written |-> {}, again |-> FALSE]
    /\ UNCHANGED <<syncedSide, unsyncedSide, environment, drainLog, keepDrainLog,
                   pendingAtStart, numDrawCalls, numSyncedUpdates, numLosEvents,
                   hmUpdated, mutatedAt, tracker, mapFileHeightMap, originalHeightMap,
                   saved, savedFrom, checksums>>

\* terrain types are written only once the map is loaded
NextLoadMap ==
    \/ \E info \in TypeInfoMaps : LoadMap(info)
    \/ \E k \in 0..(hmapx * hmapy - 1), t \in TypeValues :
           lastOp.op # "Initialize" /\ SetTerrainType(k, t)

SpecLoadMap == InitLoadMap /\ [][NextLoadMap]_vars

\* the info map has the dimensions of the type map
TypeMapFits(ptr, dims) == ptr # nullptr /\ dims.x2 = hmapx /\ dims.z2 = hmapy

\* C23: LoadMap returns the loaded map whatever the type info map is: with
\* no info map, or one whose dimensions are not hmapx x hmapy, it logs a
\* warning and every type-map cell keeps terrain type 0; the info map is
\* copied into typeMap only when it is there with matching dimensions.
C23_TypeMapFallback ==
    [][lastOp'.op = "LoadMap" =>
          /\ <<syncedSide, unsyncedSide, tracker, checksums>>' =
                 <<syncedSide, unsyncedSide, tracker, checksums>>
          /\ IF TypeMapFits(typeInfoMap', lastOp'.rect)
             THEN typeMap' = typeInfoMap' /\ trace' = <<>>
             ELSE /\ \A k \in DOMAIN typeMap' : typeMap'[k] = 0
                  /\ Len(trace') = 1
                  /\ trace'[1].ev = "LOG_L(L_WARNING)"]_vars

\* LoadMap has met an info map with as many cells as the type map but other
\* dimensions
C23_Witness ==
    /\ lastOp.op = "LoadMap"
    /\ typeInfoMap = WideTypes
    /\ typeMap = NoTypes
    /\ Len(trace) = 1

(***************************************************************************)
(* CReadMap::Initialize and the map dimensions.                            *)
(***************************************************************************)
\* mapx and mapy are divisible by 2^(numHeightMipMaps - 1)
DimsRepresentable ==
    /\ mapx % (2 ^ (numHeightMipMaps - 1)) = 0
    /\ mapy % (2 ^ (numHeightMipMaps - 1)) = 0

\* the buffers Initialize sizes are there for the whole map, and the derived
\* ones hold what UpdateHeightMapSynced computes from the corner grid
TerrainUsable ==
    /\ DOMAIN heightMapSynced = 0..(NumCorners - 1)
    /\ DOMAIN originalHeightMap = 0..(NumCorners - 1)
    /\ DOMAIN centerHeightMap = 0..(NumSquares - 1)
    /\ DOMAIN faceNormalsSynced = 0..(2 * NumSquares - 1)
    /\ DOMAIN slopeMap = 0..(hmapx * hmapy - 1)
    /\ DOMAIN typeMap = 0..(hmapx * hmapy - 1)
    /\ \A l \in 1..(numHeightMipMaps - 1) : DOMAIN mipCenterHeightMaps[l] = 0..(MipSize(l) - 1)
    /\ centerHeightMap =
           UpdateCenterHeightmap(heightMapSynced, centerHeightMap, CenterRectOf(WholeMapRect))

\* C24: Initialize fails with a configuration error and leaves no usable
\* terrain when mapx or mapy is not divisible by 2^(numHeightMipMaps - 1),
\* and succeeds otherwise.
C24_InitializeRejectsUnrepresentableDims ==
    lastOp.op = "Initialize" => (DimsRepresentable <=> TerrainUsable)

(***************************************************************************)
(* Digests over a long run: the look at a square that was updated while    *)
(* nobody observed it.                                                     *)
(***************************************************************************)
\* C25: with digests enabled a change is never missed: when
\* UpdateHeightMapSynced has touched a LOS square one or more times, 256 or
\* more included, since the square's digests were last made equal, the next
\* HeightMapUpdateLOSCheck that covers the square while it is observed
\* enqueues it.  Here the square is LOS square 0, its digests are equal after
\* Initialize, every update since has touched it, and the check is the one
\* BecomeSpectator makes.
C25_ChangeNeverMissed ==
    [][(lastOp'.op = "BecomeSpectator" /\ useDigests /\ numSyncedUpdates >= 1) =>
           Covered(CornerIdx(0, 0), Appended)]_vars

(***************************************************************************)
(* HeightMapUpdateLOSCheck, square by square.                              *)
(***************************************************************************)
\* a step that runs HeightMapUpdateLOSCheck
LosCheckStep ==
    \/ lastOp'.op = "UpdateHeightMapSynced" /\ lastOp'.rect # WholeMapRect
    \/ lastOp'.op = "GainLos" /\ ~spectatingFullView
    \/ lastOp'.op = "BecomeSpectator"

\* the rectangle that call is given
LosCheckRect ==
    IF lastOp'.op = "UpdateHeightMapSynced" THEN CornerRectOf(lastOp'.rect) ELSE lastOp'.rect

\* the LOS squares, named by their index in the digest vectors, that the
\* loops of the call visit
LosSquaresVisited(hgtMapRect) ==
    {i \in 0..(NumDigests - 1) :
        /\ ToLosSpace(hgtMapRect).x1 <= i % (losSizeX + 1)
        /\ i % (losSizeX + 1) <= ToLosSpace(hgtMapRect).x2
        /\ ToLosSpace(hgtMapRect).z1 <= i \div (losSizeX + 1)
        /\ i \div (losSizeX + 1) <= ToLosSpace(hgtMapRect).z2}

\* LOS square i is observed: the local player sees everything, or the square
\* (the nearest one of the map for the squares of the last row and column)
\* is in LOS of the local ally team
LosSquareObserved(i, los, fullView) ==
    \/ fullView
    \/ los[Min(i % (losSizeX + 1), losSizeX - 1) +
           Min(i \div (losSizeX + 1), losSizeY - 1) * losSizeX]

\* rectangle r has a heightmap square in common with LOS square i
OverlapsLosSquare(r, i) ==
    /\ r.x1 < ((i % (losSizeX + 1)) + 1) * losSqrSize
    /\ r.x2 > (i % (losSizeX + 1)) * losSqrSize
    /\ r.z1 < ((i \div (losSizeX + 1)) + 1) * losSqrSize
    /\ r.z2 > (i \div (losSizeX + 1)) * losSqrSize

\* updates and changes of visibility, with nothing drained in between
NextLosCheck ==
    \/ \E r \in WriteRects, v \in HeightValues : Mutate(r, WrittenCorner(r), v)
    \/ \E s \in 0..(NumLosSquares - 1) : GainLos(s)
    \/ \E s \in 0..(NumLosSquares - 1) : LoseLos(s)
    \/ BecomeSpectator

SpecLosCheck == Init /\ [][NextLosCheck]_vars

\* C26: HeightMapUpdateLOSCheck enqueues a LOS square only if it is observed
\* and its digests differ; a square that is not observed is not enqueued and
\* keeps its unsynced digest; a square reported changed gets the synced digest
\* as its unsynced digest, so that the same check made again at once enqueues
\* nothing; and after BecomeSpectator the two digests of every LOS square are
\* equal.
C26_LosCheckGatesOnObservedAndChanged ==
    [][LosCheckStep =>
          /\ \A i \in 0..(NumDigests - 1) :
                 LET observed == LosSquareObserved(i, inLos', spectatingFullView')
                     changed == unsyncedHeightMapDigests[i] # syncedHeightMapDigests'[i]
                     visited == i \in LosSquaresVisited(LosCheckRect)
                 IN  /\ (\E k \in 1..Len(Appended) : OverlapsLosSquare(Appended[k], i))
                            => (visited /\ observed /\ changed)
                     /\ ~observed => unsyncedHeightMapDigests'[i] = unsyncedHeightMapDigests[i]
                     /\ (visited /\ observed /\ changed)
                            => unsyncedHeightMapDigests'[i] = syncedHeightMapDigests'[i]
          /\ HeightMapUpdateLOSCheck(LosCheckRect, unsyncedHeightMapUpdates',
                                     unsyncedHeightMapDigests', syncedHeightMapDigests',
                                     inLos', spectatingFullView', useDigests)
                 = [q |-> unsyncedHeightMapUpdates', ud |-> unsyncedHeightMapDigests']
          /\ lastOp'.op = "BecomeSpectator" =>
                 unsyncedHeightMapDigests' = syncedHeightMapDigests']_vars

\* an update has touched an observed square next to one that is not observed:
\* the first was enqueued and its digests made equal, the second keeps
\* digests that differ
C26_Witness ==
    /\ lastOp.op = "UpdateHeightMapSynced"
    /\ lastOp.rect = Rect(1, 1, 3, 3)
    /\ ~spectatingFullView
    /\ inLos[0] /\ ~inLos[1]
    /\ unsyncedHeightMapDigests[0] = syncedHeightMapDigests[0]
    /\ unsyncedHeightMapDigests[1] # syncedHeightMapDigests[1]
    /\ \E k \in 1..Len(unsyncedHeightMapUpdates) :
           OverlapsLosSquare(unsyncedHeightMapUpdates[k], 0)

(***************************************************************************)
(* The rectangles HeightMapUpdateLOSCheck pushes.                          *)
(***************************************************************************)
\* LOS square (lmx, lmz) is observed and its digests differ, before the call
\* of the step
LosSquareEligible(lmx, lmz) ==
    /\ LosSquareObserved(lmx + lmz * (losSizeX + 1), inLos', spectatingFullView')
    /\ unsyncedHeightMapDigests[lmx + lmz * (losSizeX + 1)]
           # syncedHeightMapDigests'[lmx + lmz * (losSizeX + 1)]

\* the LOS squares a..b of row lmz are a maximal run of eligible squares among
\* the squares the call visits
MaximalRun(a, b, lmz, losMapRect) ==
    /\ a <= b
    /\ \A lmx \in a..b : LosSquareEligible(lmx, lmz)
    /\ a = losMapRect.x1 \/ ~LosSquareEligible(a - 1, lmz)
    /\ b = losMapRect.x2 \/ ~LosSquareEligible(b + 1, lmz)

\* the heightmap rectangle over the LOS squares a..b of row lmz
RunRect(a, b, lmz) ==
    Rect(a * losSqrSize, lmz * losSqrSize, (b + 1) * losSqrSize, (lmz + 1) * losSqrSize)

\* r is what the call pushes for a maximal run of eligible squares of one row:
\* the rectangle over the run, clamped into the rectangle given to the call
PushedForRun(r, hgtMapRect) ==
    \E lmz \in ToLosSpace(hgtMapRect).z1..ToLosSpace(hgtMapRect).z2 :
    \E a, b \in ToLosSpace(hgtMapRect).x1..ToLosSpace(hgtMapRect).x2 :
        /\ MaximalRun(a, b, lmz, ToLosSpace(hgtMapRect))
        /\ r = ClampIn(RunRect(a, b, lmz), hgtMapRect)

\* r lies inside o
RectInside(r, o) ==
    o.x1 <= r.x1 /\ r.x1 <= r.x2 /\ r.x2 <= o.x2 /\ o.z1 <= r.z1 /\ r.z1 <= r.z2 /\ r.z2 <= o.z2

\* updates whose expanded rectangle ends on the border between LOS squares
\* inside the map, or cuts through LOS squares, and changes of visibility
BorderRects == {Rect(1, 1, 1, 1), Rect(2, 2, 2, 2)}

NextPush ==
    \/ \E r \in BorderRects, v \in HeightValues : Mutate(r, WrittenCorner(r), v)
    \/ \E s \in 0..(NumLosSquares - 1) : GainLos(s)
    \/ \E s \in 0..(NumLosSquares - 1) : LoseLos(s)
    \/ BecomeSpectator

SpecPush == Init /\ [][NextPush]_vars

NextConverge ==
    \/ \E c \in TrackedCorners : \E v \in TrackedHeights \ {heightMapSynced[c]} :
           syncFrame <= PACING_PERIOD /\ SetHeight(c, v)
    \/ SimFrame

\* the simulation runs a frame whenever it can
SpecConverge == InitBounds /\ [][NextConverge]_vars /\ WF_vars(SimFrame)

\* C28: with UpdateHeightBounds(syncFrame) called once per frame and every
\* height write setting hmUpdated, once the writes have stopped
\* currHeightBounds becomes the exact minimum and maximum of the synced
\* corner grid and stays so, writes in the middle of a scan included.
C28_BoundsConverge == <>[](currHeightBounds = ExactBounds(heightMapSynced))

\* the call at slice 0 has committed a scan that a write cut in two: part of
\* it saw the heights before the write, and the bounds it committed are
\* neither those of the load nor the exact ones
C28_Witness ==
    /\ lastOp.op = "UpdateHeightBounds"
    /\ syncFrame = PACING_PERIOD + 1
    /\ mutatedAt > 0 /\ mutatedAt < PACING_PERIOD
    /\ processingHeightBounds
    /\ currHeightBounds # initHeightBounds
    /\ currHeightBounds # ExactBounds(heightMapSynced)

(***************************************************************************)
(* The buffer cells the derivations of UpdateHeightMapSynced address, for  *)
(* rectangles inside, on the edge of, and outside the map.                 *)
(***************************************************************************)
\* rectangles in the map, on its edges, of one corner, partly outside and
\* wholly outside it
AnyRects ==
    WriteRects \cup
    {Rect(-2, -2, 1, 1), Rect(3, 3, 6, 6), Rect(-3, 1, -2, 2), Rect(1, -3, 2, -2),
     Rect(-5, -5, -4, -4), Rect(5, 0, 6, 4), Rect(6, 6, 7, 7), Rect(-1, -1, 5, 5)}

\* number of cells of the buffers the row loops address
BufferSize(name) ==
    CASE name = "heightMapSynced" -> mapxp1 * mapyp1
      [] name = "centerHeightMap" -> mapx * mapy
      [] name \in {"faceNormalsSynced", "faceNormalsUnsynced"} -> 2 * mapx * mapy
      [] name \in {"centerNormalsSynced", "centerNormalsUnsynced", "centerNormals2D"} ->
             mapx * mapy
      [] name = "slopeMap" -> hmapx * hmapy

\* a mip loop that runs to ex and ey inclusive
MipAccessesInclusive(rect) ==
    UNION {UNION {{<<i, x + y * Shr(mapx, i)>>, <<i, x + (y + 1) * Shr(mapx, i)>>,
                   <<i, (x + 1) + y * Shr(mapx, i)>>, <<i, (x + 1) + (y + 1) * Shr(mapx, i)>>,
                   <<i + 1, (x \div 2) + ((y \div 2) * Shr(mapx, i)) \div 2>>} :
                      x \in EvenSteps(ClearBit0(Shr(rect.x1, i)), Shr(rect.x2, i) + 1),
                      y \in EvenSteps(ClearBit0(Shr(rect.z1, i)), Shr(rect.z2, i) + 1)} :
              i \in 0..(numHeightMipMaps - 2)}

\* the cells <<level, index>> UpdateMipHeightmaps reads (topMipMap, level i)
\* and writes (subMipMap, level i + 1); level 0 is the center grid
MipAccesses(rect) ==
    UNION {UNION {{<<i, x + y * Shr(mapx, i)>>, <<i, x + (y + 1) * Shr(mapx, i)>>,
                   <<i, (x + 1) + y * Shr(mapx, i)>>, <<i, (x + 1) + (y + 1) * Shr(mapx, i)>>,
                   <<i + 1, (x \div 2) + ((y \div 2) * Shr(mapx, i)) \div 2>>} :
                      x \in EvenSteps(ClearBit0(Shr(rect.x1, i)), Shr(rect.x2, i)),
                      y \in EvenSteps(ClearBit0(Shr(rect.z1, i)), Shr(rect.z2, i))} :
              i \in 0..(numHeightMipMaps - 2)}

\* the cells <<buffer, index>> the row loops of the call address
RowLoopAccesses(hgtMapRect, unsyncedBuild) ==
    LET rect == CenterRectOf(hgtMapRect)
        initialize == (hgtMapRect = WholeMapRect)
    IN  UNION {CenterHeightWrites(rect, y) \cup CenterHeightReads(rect, y) :
                   y \in rect.z1..rect.z2}
        \cup UNION {FaceNormalsWrites(rect, y, initialize, unsyncedBuild) \cup
                    FaceNormalsReads(rect, y, initialize, unsyncedBuild) :
                        y \in FaceNormalRows(rect)}
        \cup UNION {SlopeWrites(rect, y) \cup SlopeReads(rect, y) : y \in SlopeRows(rect)}

\* UpdateHeightMapSynced on rectangles of every kind
NextAnyRect ==
    \/ \E r \in AnyRects : Reapply(r)
    \/ \E r \in WriteRects, v \in HeightValues : Mutate(r, WrittenCorner(r), v)

SpecAnyRect == Init /\ [][NextAnyRect]_vars

\* C29: for every rectangle given to UpdateHeightMapSynced, every index
\* UpdateCenterHeightmap, UpdateMipHeightmaps, UpdateFaceNormals and
\* UpdateSlopemap read or write lies within the buffer it addresses.
C29_DerivationIndicesInBounds ==
    [][lastOp'.op = "UpdateHeightMapSynced" =>
          /\ \A a \in RowLoopAccesses(lastOp'.rect, useUnsynced) :
                 0 <= a[2] /\ a[2] < BufferSize(a[1])
          /\ \A a \in MipAccesses(CenterRectOf(lastOp'.rect)) :
                 0 <= a[2] /\ a[2] < MipSize(a[1])]_vars

\* the call has run on a rectangle that lies outside the map but next to it:
\* the face-normal and slope loops still run over the first column
C29_Witness ==
    /\ lastOp.op = "UpdateHeightMapSynced"
    /\ lastOp.rect = Rect(-3, 1, -2, 2)
    /\ FaceNormalColumns(CenterRectOf(lastOp.rect)) # {}
    /\ RowLoopAccesses(lastOp.rect, useUnsynced) # {}
    /\ numSyncedUpdates = MaxSyncedUpdates

(***************************************************************************)
(* The state Initialize leaves, and the initial bounds later on.           *)
(***************************************************************************)
\* the step is a call of one of the two variants of UpdateHeightBounds
UpdateHeightBoundsStep == lastOp'.op \in {"UpdateHeightBounds", "UpdateHeightBoundsFull"}

\* C30: after Initialize the map-file and original height maps equal the
\* synced corner grid, initHeightBounds and currHeightBounds are its exact
\* minimum and maximum, mapChecksum is what CalcHeightmapChecksum returns on
\* the grid, the queue holds the whole-map rectangle and nothing else, and
\* the unsynced face and center normals equal the synced ones; and no call
\* of UpdateHeightBounds, paced or full, changes initHeightBounds.
C30_StateAfterInitialize ==
    [][/\ lastOp.op = "Initialize" =>
              /\ mapFileHeightMap = heightMapSynced
              /\ originalHeightMap = heightMapSynced
              /\ initHeightBounds = ExactBounds(heightMapSynced)
              /\ currHeightBounds = ExactBounds(heightMapSynced)
              /\ mapChecksum = CalcHeightmapChecksum(heightMapSynced)
              /\ unsyncedHeightMapUpdates = <<Rect(0, 0, mapx, mapy)>>
              /\ faceNormalsUnsynced = faceNormalsSynced
              /\ centerNormalsUnsynced = centerNormalsSynced
       /\ UpdateHeightBoundsStep => initHeightBounds' = initHeightBounds]_vars

\* heights were written and the bounds rescanned: the current bounds have
\* moved, the initial ones are those of the heightmap as loaded
C30_Witness ==
    /\ lastOp.op \in {"UpdateHeightBounds", "UpdateHeightBoundsFull"}
    /\ heightMapSynced # originalHeightMap
    /\ currHeightBounds = ExactBounds(heightMapSynced)
    /\ currHeightBounds # initHeightBounds
    /\ initHeightBounds = ExactBounds(originalHeightMap)
    /\ originalHeightMap = mapFileHeightMap

====
